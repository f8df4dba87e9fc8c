-------------------------- MODULE H5StreamsProofs --------------------------
(***************************************************************************)
(* The H5 monitor's slots and tokens, for any users, requests and limits.  *)
(* The inductive invariant ties the slot of a request to the step it is at *)
(* and the token of a repeated call to the one that its refresh fetched.   *)
(***************************************************************************)
EXTENDS H5Streams, FiniteSetTheorems, TLAPS

\* The steps of a call of the cloud.
Calling == {"look", "post", "refresh", "store", "repost"}
Starts(r) == call[r].kind \in {"live", "playback"}

\* A start under way has a slot; a slot handed out belongs to an answered start.
SlotInv(r) ==
    /\ pc[r] # "new" => user[r] \in Users
    /\ pc[r] \in {"new", "admit"} => slot[r] = "none"
    /\ slot[r] = "held" => pc[r] = "end"
    /\ slot[r] = "taken" <=> Starts(r) /\ pc[r] \in Calling \cup {"audit"}
    /\ pc[r] \in Calling => (call[r].step \in {"aac", "address"} <=> Starts(r))
    /\ pc[r] = "audit" => Starts(r)

\* A repeated call uses the token that its own refresh fetched from the cloud.
TokenInv(r) ==
    /\ pc[r] \in {"store", "repost"} => call[r].got \in 0..cloud
    /\ pc[r] = "repost" => call[r].token = call[r].got
    /\ answer[r] = "expired" =>
         pc[r] = "end" /\ call[r].got \in 0..cloud /\ call[r].got # cloud

\* The count of one user.
CountInv(u) ==
    /\ IsFiniteSet(Streams(u))
    /\ active[u] <= Cardinality(Streams(u))
    /\ Cardinality(Streams(u)) <= active[u] + stray[u]

IInv ==
    /\ TypeOK
    /\ \A r \in Requests : SlotInv(r) /\ TokenInv(r)
    /\ \A u \in Users : CountInv(u)

\* The actions of one request.
Arrive(r) ==
    \E u \in Users : \/ getLiveURL(r, u) \/ getPlaybackURL(r, u) \/ getRecordSegments(r, u)
                     \/ \E t \in Requests : disableURL(r, u, t)
Admit(r) == GetLiveURL(r) \/ GetPlaybackURL(r) \/ GetRecordSegments(r) \/ DisableURL(r)
Cloud(r) == LookToken(r) \/ Post(r) \/ RefreshToken(r) \/ StoreToken(r) \/ Repost(r)
Act(r) == Arrive(r) \/ Admit(r) \/ Cloud(r) \/ RecordAudit(r)

\* Next is an action of one request, or of the surroundings.
LEMMA NextSplit == Next => (\E r \in Requests : Act(r)) \/ Restart \/ Age \/ Rotate
BY DEF Next, Act, Arrive, Admit, Cloud

\* What the end of a call does to its request: the AAC transfer goes on with the
\* address, an address is audited, everything else is answered.
LEMMA CallEffect ==
    ASSUME NEW r \in Requests, NEW result \in {"ok", "failed", "expired"}, CallEnds(r, result)
    PROVE  \/ call[r].step = "aac" /\ Call(r, "address") /\ UNCHANGED mem
           \/ /\ call[r].step = "address" /\ pc' = [pc EXCEPT ![r] = "audit"]
              /\ call' = [call EXCEPT ![r] = Asks(r)] /\ UNCHANGED <<mem, answer>>
           \/ call[r].step = "address" /\ End(r, result) /\ releaseStart(r)
           \/ call[r].step = "segments" /\ End(r, result) /\ UNCHANGED mem
           \/ call[r].step = "disable" /\ End(r, result) /\ releaseDisabled(r)
BY DEF CallEnds, EnsureAACTransfer, LiveAddress, PlaybackAddress, Address, QueryRecordSegments,
       DisableLiveAddress

\* Answering a request keeps the types.
LEMMA EndTypes ==
    ASSUME TypeOK, NEW r \in Requests, NEW a \in {"ok", "failed", "expired"}, End(r, a)
    PROVE  /\ pc' \in [Requests -> {"new", "admit", "look", "post", "refresh", "store",
                                    "repost", "audit", "end"}]
           /\ answer' \in [Requests -> {"none", "ok", "failed", "expired"}]
           /\ call' \in [Requests -> CallTypes]
<1>1. call[r].got \in Tokens \cup {None}
  BY DEF TypeOK, CallTypes
<1>2. NoCall \in CallTypes /\ [NoCall EXCEPT !.got = call[r].got] \in CallTypes
  BY <1>1 DEF NoCall, CallTypes
<1> QED BY <1>2 DEF End, TypeOK

\* Giving a slot back keeps the types of the counts.
LEMMA ReleaseTypes ==
    ASSUME TypeOK, NEW r \in Requests, user[r] \in Users,
           releaseStart(r) \/ releaseDisabled(r)
    PROVE  /\ active' \in [Users -> 0..AdminMax]
           /\ slot' \in [Requests -> {"none", "taken", "held", "back", "lost"}]
           /\ stray' \in [Users -> Nat]
<1>1. \A u \in Users : Released(u) \in [Users -> 0..AdminMax]
  <2> SUFFICES ASSUME NEW u \in Users PROVE Released(u) \in [Users -> 0..AdminMax]
    OBVIOUS
  <2>1. active[u] \in 0..AdminMax
    BY DEF TypeOK
  <2>2. (IF active[u] > 0 THEN active[u] - 1 ELSE active[u]) \in 0..AdminMax
    BY <2>1, StreamAssumption
  <2> QED BY <2>2 DEF Released, TypeOK
<1>2. CASE releaseStart(r)
  BY <1>1, <1>2 DEF releaseStart, TypeOK
<1>3. CASE releaseDisabled(r)
  <2> DEFINE s == call[r].target
  <2>1. stray[user[r]] + 1 \in Nat
    BY DEF TypeOK
  <2>2. /\ active' = Released(user[r])
        /\ slot' = slot \/ slot' = [slot EXCEPT ![s] = "back"]
        /\ stray' = stray \/ stray' = [stray EXCEPT ![user[r]] = stray[user[r]] + 1]
    BY <1>3 DEF releaseDisabled
  <2>3. active' \in [Users -> 0..AdminMax]
    BY <1>1, <2>2
  <2>4. stray' \in [Users -> Nat]
    BY <2>1, <2>2 DEF TypeOK
  <2> HIDE DEF s
  <2>5. slot' \in [Requests -> {"none", "taken", "held", "back", "lost"}]
    BY <2>2 DEF TypeOK
  <2> QED BY <2>3, <2>4, <2>5
<1> QED BY <1>2, <1>3

\* Every action keeps the types.
LEMMA TypeStep == ASSUME IInv, [Next]_vars PROVE TypeOK'
<1>0. TypeOK /\ cloud \in Tokens
  BY DEF IInv, TypeOK
<1>a. /\ NoCall \in CallTypes
      /\ \A k \in Kinds, t \in Requests \cup {None} :
            [NoCall EXCEPT !.kind = k, !.target = t] \in CallTypes
      /\ \A r \in Requests : Asks(r) \in CallTypes
      /\ \A r \in Requests, s \in Steps : [Asks(r) EXCEPT !.step = s] \in CallTypes
  <2>1. \A r \in Requests : call[r].kind \in Kinds \cup {None}
                           /\ call[r].target \in Requests \cup {None}
    BY <1>0 DEF TypeOK, CallTypes
  <2> QED BY <2>1 DEF NoCall, Asks, CallTypes
<1>1. CASE UNCHANGED vars
  BY <1>0, <1>1 DEF vars, mem, TypeOK
<1>2. ASSUME NEW r \in Requests, Act(r) PROVE TypeOK'
  <2>0. call[r] \in CallTypes /\ user[r] \in Users \cup {None}
    BY <1>0 DEF TypeOK
  <2>1. CASE Arrive(r)
    <3> SUFFICES ASSUME NEW u \in Users, NEW k \in Kinds, NEW t \in Requests \cup {None},
                        Begin(r, u, k, t)
                 PROVE  TypeOK'
      BY <2>1 DEF Arrive, getLiveURL, getPlaybackURL, getRecordSegments, disableURL, Kinds
    <3>1. CASE End(r, "failed")
      BY <1>0, <3>1, EndTypes DEF Begin, mem, TypeOK
    <3>2. ASSUME call' = [call EXCEPT ![r] = [NoCall EXCEPT !.kind = k, !.target = t]],
                 pc' = [pc EXCEPT ![r] = "admit"], UNCHANGED answer
          PROVE  TypeOK'
      <4>1. call' \in [Requests -> CallTypes]
        <5>1. [NoCall EXCEPT !.kind = k, !.target = t] \in CallTypes
          BY <1>a
        <5> QED BY <1>0, <3>2, <5>1 DEF TypeOK
      <4>2. pc' \in [Requests -> {"new", "admit", "look", "post", "refresh", "store",
                                  "repost", "audit", "end"}]
        BY <1>0, <3>2 DEF TypeOK
      <4> QED BY <1>0, <3>2, <4>1, <4>2 DEF Begin, mem, TypeOK
    <3> QED BY <3>1, <3>2 DEF Begin
  <2>c. ASSUME NEW s \in Steps, Call(r, s)
        PROVE  /\ pc' \in [Requests -> {"new", "admit", "look", "post", "refresh", "store",
                                        "repost", "audit", "end"}]
               /\ answer' \in [Requests -> {"none", "ok", "failed", "expired"}]
               /\ call' \in [Requests -> CallTypes]
    <3>1. call' \in [Requests -> CallTypes]
      BY <1>0, <1>a, <2>c DEF Call, TypeOK
    <3> QED BY <1>0, <2>c, <3>1 DEF Call, TypeOK
  <2>2. CASE Admit(r)
    <3>1. user[r] \in Users
      BY <2>2 DEF Admit, GetLiveURL, GetPlaybackURL, GetRecordSegments, DisableURL, IInv, SlotInv
    <3>2. ASSUME NEW first \in {"aac", "address"}, Start(r, first) PROVE TypeOK'
      <4>1. ASSUME NEW isAdmin \in BOOLEAN, acquireConcurrency(r, isAdmin), Call(r, first)
            PROVE  TypeOK'
        <5>1. active[user[r]] + 1 \in 0..AdminMax
          <6>1. active[user[r]] \in Nat /\ active[user[r]] < Limit(isAdmin)
            BY <1>0, <3>1, <4>1, StreamAssumption DEF acquireConcurrency, TypeOK
          <6>2. Limit(isAdmin) \in Nat /\ Limit(isAdmin) <= AdminMax
            BY StreamAssumption DEF Limit
          <6> QED BY <6>1, <6>2, StreamAssumption
        <5>2. active' \in [Users -> 0..AdminMax]
          BY <1>0, <3>1, <4>1, <5>1 DEF acquireConcurrency, TypeOK
        <5>3. slot' \in [Requests -> {"none", "taken", "held", "back", "lost"}]
          BY <1>0, <4>1 DEF acquireConcurrency, TypeOK
        <5>4. first \in Steps
          BY DEF Steps
        <5> QED BY <1>0, <2>c, <3>2, <4>1, <5>2, <5>3, <5>4
               DEF Start, acquireConcurrency, TypeOK
      <4>2. CASE End(r, "failed") /\ UNCHANGED mem
        BY <1>0, <3>2, <4>2, EndTypes DEF Start, mem, TypeOK
      <4> QED BY <3>2, <4>1, <4>2 DEF Start
    <3>3. CASE GetRecordSegments(r)
      <4>1. CASE Call(r, "segments")
        BY <1>0, <2>c, <3>3, <4>1 DEF GetRecordSegments, mem, TypeOK, Steps
      <4>2. CASE End(r, "failed")
        BY <1>0, <3>3, <4>2, EndTypes DEF GetRecordSegments, mem, TypeOK
      <4> QED BY <3>3, <4>1, <4>2 DEF GetRecordSegments
    <3>4. CASE DisableURL(r)
      <4>1. CASE Call(r, "disable") /\ UNCHANGED mem
        BY <1>0, <2>c, <3>4, <4>1 DEF DisableURL, mem, TypeOK, Steps
      <4>2. CASE End(r, "failed") /\ releaseDisabled(r)
        BY <1>0, <3>1, <3>4, <4>2, EndTypes, ReleaseTypes DEF DisableURL, TypeOK
      <4> QED BY <3>4, <4>1, <4>2 DEF DisableURL
    <3> QED BY <2>2, <3>2, <3>3, <3>4 DEF Admit, GetLiveURL, GetPlaybackURL
  <2>3. CASE Cloud(r)
    <3>1. user[r] \in Users
      BY <2>3 DEF Cloud, LookToken, Post, RefreshToken, StoreToken, Repost, IInv, SlotInv
    <3>2. ASSUME NEW result \in {"ok", "failed", "expired"}, CallEnds(r, result),
                 UNCHANGED <<static, cache, cloud, user, audit>>
          PROVE  TypeOK'
      <4>1. CASE Call(r, "address") /\ UNCHANGED mem
        BY <1>0, <2>c, <3>2, <4>1 DEF mem, TypeOK, Steps
      <4>2. CASE /\ pc' = [pc EXCEPT ![r] = "audit"] /\ call' = [call EXCEPT ![r] = Asks(r)]
                 /\ UNCHANGED <<mem, answer>>
        <5>1. call' \in [Requests -> CallTypes]
          BY <1>0, <1>a, <4>2 DEF TypeOK
        <5> QED BY <1>0, <3>2, <4>2, <5>1 DEF mem, TypeOK
      <4>3. CASE End(r, result) /\ (releaseStart(r) \/ releaseDisabled(r))
        BY <1>0, <3>1, <3>2, <4>3, EndTypes, ReleaseTypes DEF TypeOK
      <4>4. CASE End(r, result) /\ UNCHANGED mem
        BY <1>0, <3>2, <4>4, EndTypes DEF mem, TypeOK
      <4> QED BY <3>2, <4>1, <4>2, <4>3, <4>4, CallEffect
    <3>3. CASE LookToken(r)
      <4>1. cache.token \in Tokens \cup {None} /\ static \in Tokens \cup {None}
        BY <1>0, StreamAssumption DEF TypeOK, Tokens
      <4>2. call' \in [Requests -> CallTypes]
        <5>1. \A t \in Tokens \cup {None} : [call[r] EXCEPT !.token = t] \in CallTypes
          BY <2>0 DEF CallTypes
        <5> QED BY <1>0, <3>3, <4>1, <5>1 DEF LookToken, TypeOK
      <4>3. pc' \in [Requests -> {"new", "admit", "look", "post", "refresh", "store",
                                  "repost", "audit", "end"}]
        BY <1>0, <3>3 DEF LookToken, TypeOK
      <4> QED BY <1>0, <3>3, <4>2, <4>3 DEF LookToken, mem, TypeOK
    <3>4. CASE Post(r)
      <4>1. CASE /\ pc' = [pc EXCEPT ![r] = "refresh"]
                 /\ call' = [call EXCEPT ![r].refused = TRUE, ![r].token = None]
                 /\ UNCHANGED <<mem, answer>>
        <5>1. call' \in [Requests -> CallTypes]
          <6>1. [call[r] EXCEPT !.refused = TRUE, !.token = None] \in CallTypes
            BY <2>0 DEF CallTypes
          <6> QED BY <1>0, <4>1, <6>1 DEF TypeOK
        <5> QED BY <1>0, <3>4, <4>1, <5>1 DEF Post, mem, TypeOK
      <4> QED BY <3>2, <3>4, <4>1 DEF Post
    <3>5. CASE RefreshToken(r)
      <4>1. CASE /\ call' = [call EXCEPT ![r].got = cloud]
                 /\ pc' = [pc EXCEPT ![r] = "store"]
                 /\ UNCHANGED <<mem, answer>>
        <5>1. call' \in [Requests -> CallTypes]
          <6>1. [call[r] EXCEPT !.got = cloud] \in CallTypes
            BY <1>0, <2>0 DEF CallTypes
          <6> QED BY <1>0, <4>1, <6>1 DEF TypeOK
        <5> QED BY <1>0, <3>5, <4>1, <5>1 DEF RefreshToken, mem, TypeOK
      <4> QED BY <3>2, <3>5, <4>1 DEF RefreshToken
    <3>6. CASE StoreToken(r)
      <4>1. call[r].got \in Tokens \cup {None}
        BY <1>0 DEF TypeOK, CallTypes
      <4>2. call' \in [Requests -> CallTypes]
        <5>1. [call[r] EXCEPT !.token = call[r].got] \in CallTypes
          BY <2>0, <4>1 DEF CallTypes
        <5> QED BY <1>0, <3>6, <5>1 DEF StoreToken, TypeOK
      <4> QED BY <1>0, <3>6, <4>1, <4>2 DEF StoreToken, mem, TypeOK
    <3>7. CASE Repost(r)
      BY <3>2, <3>7 DEF Repost
    <3> QED BY <2>3, <3>3, <3>4, <3>5, <3>6, <3>7 DEF Cloud
  <2>4. CASE RecordAudit(r)
    <3>1. user[r] \in Users
      BY <2>4 DEF RecordAudit, IInv, SlotInv
    <3>2. audit' \subseteq Requests
      BY <1>0, <2>4 DEF RecordAudit, TypeOK
    <3>3. CASE /\ End(r, "ok") /\ slot' = [slot EXCEPT ![r] = "held"]
               /\ UNCHANGED <<active, stray>>
      BY <1>0, <2>4, <3>2, <3>3, EndTypes DEF RecordAudit, TypeOK
    <3>4. CASE End(r, "failed") /\ releaseStart(r)
      BY <1>0, <2>4, <3>1, <3>2, <3>4, EndTypes, ReleaseTypes DEF RecordAudit, TypeOK
    <3> QED BY <2>4, <3>3, <3>4 DEF RecordAudit
  <2> QED BY <1>2, <2>1, <2>2, <2>3, <2>4 DEF Act
<1>3. CASE Restart
  <2>1. \A r \in Requests : (IF answer[r] = "expired" THEN call[r].got ELSE None) \in Tokens \cup {None}
    BY <1>0 DEF TypeOK, CallTypes
  <2>2. \A g \in Tokens \cup {None} : [NoCall EXCEPT !.got = g] \in CallTypes
    BY DEF NoCall, CallTypes
  <2>3. call' \in [Requests -> CallTypes]
    BY <1>3, <2>1, <2>2 DEF Restart
  <2>4. active' \in [Users -> 0..AdminMax]
    BY <1>3, StreamAssumption DEF Restart
  <2> QED BY <1>0, <1>3, <2>3, <2>4 DEF Restart, TypeOK
<1>4. CASE Age
  BY <1>0, <1>4 DEF Age, mem, TypeOK
<1>5. CASE Rotate
  BY <1>0, <1>5, StreamAssumption DEF Rotate, mem, TypeOK, Tokens
<1> QED BY <1>1, <1>2, <1>3, <1>4, <1>5, NextSplit

\* An action of a request leaves the other requests alone, but for the slot of an
\* answered start that it gives back.
LEMMA OthersStep ==
    ASSUME TypeOK, NEW r \in Requests, Act(r), NEW q \in Requests \ {r}
    PROVE  /\ pc'[q] = pc[q] /\ answer'[q] = answer[q] /\ call'[q] = call[q]
           /\ user'[q] = user[q] /\ cloud' = cloud
           /\ slot'[q] = slot[q] \/ (slot[q] = "held" /\ slot'[q] = "back")
<1>1. CASE Arrive(r)
  BY <1>1 DEF Arrive, getLiveURL, getPlaybackURL, getRecordSegments, disableURL, Begin, End,
     mem, TypeOK
<1>2. CASE Admit(r)
  <2>1. cloud' = cloud /\ user'[q] = user[q]
    BY <1>2 DEF Admit, GetLiveURL, GetPlaybackURL, GetRecordSegments, DisableURL, Start
  <2>2. pc'[q] = pc[q] /\ answer'[q] = answer[q] /\ call'[q] = call[q]
    BY <1>2 DEF Admit, GetLiveURL, GetPlaybackURL, GetRecordSegments, DisableURL, Start, Call,
       End, TypeOK
  <2>3. slot'[q] = slot[q] \/ (slot[q] = "held" /\ slot'[q] = "back")
    BY <1>2 DEF Admit, GetLiveURL, GetPlaybackURL, GetRecordSegments, DisableURL, Start,
       acquireConcurrency, releaseDisabled, mem, TypeOK
  <2> QED BY <2>1, <2>2, <2>3
<1>3. CASE Cloud(r)
  <2>1. cloud' = cloud /\ user'[q] = user[q]
    BY <1>3 DEF Cloud, LookToken, Post, RefreshToken, StoreToken, Repost
  <2>2. ASSUME NEW result \in {"ok", "failed", "expired"}, CallEnds(r, result)
        PROVE  /\ pc'[q] = pc[q] /\ answer'[q] = answer[q] /\ call'[q] = call[q]
               /\ slot'[q] = slot[q] \/ (slot[q] = "held" /\ slot'[q] = "back")
    BY <2>2, CallEffect DEF Call, End, releaseStart, releaseDisabled, mem, TypeOK
  <2>3. CASE \E result \in {"ok", "failed", "expired"} : CallEnds(r, result)
    BY <2>1, <2>2, <2>3
  <2>4. CASE ~\E result \in {"ok", "failed", "expired"} : CallEnds(r, result)
    <3>1. pc'[q] = pc[q] /\ answer'[q] = answer[q] /\ UNCHANGED mem
      BY <1>3, <2>4 DEF Cloud, LookToken, Post, RefreshToken, StoreToken, Repost, TypeOK
    <3>2. call'[q] = call[q]
      BY <1>3, <2>4 DEF Cloud, LookToken, Post, RefreshToken, StoreToken, Repost, TypeOK
    <3> QED BY <2>1, <3>1, <3>2 DEF mem
  <2> QED BY <2>3, <2>4
<1>4. CASE RecordAudit(r)
  BY <1>4 DEF RecordAudit, End, releaseStart, TypeOK
<1> QED BY <1>1, <1>2, <1>3, <1>4 DEF Act

\* What an answer and a new call leave of a request.
LEMMA AnswerEffect ==
    ASSUME TypeOK, NEW r \in Requests
    PROVE  /\ \A a \in {"ok", "failed", "expired"} :
                End(r, a) => /\ pc'[r] = "end" /\ answer'[r] = a
                             /\ a = "expired" => call'[r].got = call[r].got
           /\ \A s \in Steps : Call(r, s) => /\ pc'[r] = "look" /\ call'[r].step = s
                                             /\ call'[r].kind = call[r].kind
                                             /\ answer'[r] = answer[r]
<1>1. \A a \in {"ok", "failed", "expired"} :
        End(r, a) => /\ pc'[r] = "end" /\ answer'[r] = a
                     /\ a = "expired" => call'[r].got = call[r].got
  BY DEF End, NoCall, TypeOK, CallTypes
<1>2. \A s \in Steps : Call(r, s) => /\ pc'[r] = "look" /\ call'[r].step = s
                                     /\ call'[r].kind = call[r].kind
                                     /\ answer'[r] = answer[r]
  BY DEF Call, Asks, NoCall, TypeOK
<1> QED BY <1>1, <1>2

\* What giving a slot back does to the caller's own slot.
LEMMA ReleaseEffect ==
    ASSUME TypeOK, NEW r \in Requests
    PROVE  /\ releaseStart(r) => slot'[r] = "back"
           /\ releaseDisabled(r) => slot'[r] = slot[r] \/ (slot[r] = "held" /\ slot'[r] = "back")
BY DEF releaseStart, releaseDisabled, TypeOK

\* Slots stay tied to the steps of their requests.
LEMMA SlotStep == ASSUME IInv, [Next]_vars PROVE \A r \in Requests : SlotInv(r)'
<1> SUFFICES ASSUME NEW q \in Requests PROVE SlotInv(q)'
  OBVIOUS
<1>0. TypeOK /\ SlotInv(q)
  BY DEF IInv
<1> USE DEF SlotInv, Starts, Calling
<1>1. CASE UNCHANGED vars \/ Age \/ Rotate
  BY <1>0, <1>1 DEF vars, Age, Rotate, mem
<1>2. CASE Restart
  BY <1>0, <1>2 DEF Restart, TypeOK
<1>3. ASSUME NEW r \in Requests, Act(r) PROVE SlotInv(q)'
  <2>1. CASE q # r
    BY <1>0, <1>3, <2>1, OthersStep
  <2>2. CASE q = r
    <3>1. CASE Arrive(r)
      <4>1. ASSUME NEW u \in Users, NEW k \in Kinds, NEW t \in Requests \cup {None},
                   Begin(r, u, k, t)
            PROVE  SlotInv(r)'
        <5>1. user'[r] \in Users /\ pc'[r] \in {"admit", "end"}
              /\ slot'[r] = "none"
          BY <1>0, <2>2, <4>1, AnswerEffect DEF Begin, mem, TypeOK
        <5> QED BY <5>1
      <4> QED BY <2>2, <3>1, <4>1 DEF Arrive, getLiveURL, getPlaybackURL, getRecordSegments,
                 disableURL, Kinds
    <3>2. CASE Admit(r)
      <4>0. /\ pc[r] = "admit" /\ slot[r] = "none" /\ user'[r] = user[r]
        BY <1>0, <2>2, <3>2 DEF Admit, GetLiveURL, GetPlaybackURL, GetRecordSegments,
           DisableURL, Start
      <4>1. ASSUME NEW first \in {"aac", "address"}, Start(r, first), Starts(r)
            PROVE  SlotInv(r)'
        <5>1. ASSUME NEW isAdmin \in BOOLEAN, acquireConcurrency(r, isAdmin), Call(r, first)
              PROVE  SlotInv(r)'
          <6>1. slot'[r] = "taken" /\ pc'[r] = "look" /\ call'[r].step = first
                /\ call'[r].kind = call[r].kind
            BY <1>0, <5>1, AnswerEffect DEF acquireConcurrency, TypeOK, Steps
          <6> QED BY <1>0, <2>2, <4>0, <4>1, <6>1
        <5>2. CASE End(r, "failed") /\ UNCHANGED mem
          BY <1>0, <2>2, <4>0, <5>2, AnswerEffect DEF mem
        <5> QED BY <4>1, <5>1, <5>2 DEF Start
      <4>2. CASE GetRecordSegments(r)
        <5>1. slot'[r] = slot[r] /\ call[r].kind = "segments"
          BY <4>2 DEF GetRecordSegments, mem
        <5>2. pc'[r] = "end" \/ (/\ pc'[r] = "look" /\ call'[r].step = "segments"
                              /\ call'[r].kind = call[r].kind)
          BY <1>0, <4>2, AnswerEffect DEF GetRecordSegments, Steps
        <5> QED BY <1>0, <2>2, <4>0, <5>1, <5>2
      <4>3. CASE DisableURL(r)
        <5>1. slot'[r] = slot[r] /\ call[r].kind = "disable"
          BY <1>0, <4>0, <4>3, ReleaseEffect DEF DisableURL, mem
        <5>2. pc'[r] = "end" \/ (/\ pc'[r] = "look" /\ call'[r].step = "disable"
                              /\ call'[r].kind = call[r].kind)
          BY <1>0, <4>3, AnswerEffect DEF DisableURL, Steps
        <5> QED BY <1>0, <2>2, <4>0, <5>1, <5>2
      <4> QED BY <2>2, <3>2, <4>1, <4>2, <4>3 DEF Admit, GetLiveURL, GetPlaybackURL
    <3>3. CASE Cloud(r)
      <4>0. pc[r] \in Calling /\ user'[r] = user[r]
        BY <3>3 DEF Cloud, LookToken, Post, RefreshToken, StoreToken, Repost
      <4>1. ASSUME NEW result \in {"ok", "failed", "expired"}, CallEnds(r, result)
            PROVE  SlotInv(r)'
        <5>1. CASE call[r].step = "aac" /\ Call(r, "address") /\ UNCHANGED mem
          BY <1>0, <2>2, <4>0, <5>1, AnswerEffect DEF Steps, mem
        <5>2. CASE /\ call[r].step = "address" /\ pc' = [pc EXCEPT ![r] = "audit"]
                   /\ call' = [call EXCEPT ![r] = Asks(r)] /\ UNCHANGED <<mem, answer>>
          <6>1. call'[r].kind = call[r].kind /\ pc'[r] = "audit"
            BY <1>0, <5>2 DEF Asks, NoCall, TypeOK
          <6> QED BY <1>0, <2>2, <4>0, <5>2, <6>1 DEF mem
        <5>3. CASE call[r].step = "address" /\ End(r, result) /\ releaseStart(r)
          BY <1>0, <2>2, <4>0, <5>3, AnswerEffect, ReleaseEffect
        <5>4. CASE call[r].step = "segments" /\ End(r, result) /\ UNCHANGED mem
          BY <1>0, <2>2, <4>0, <5>4, AnswerEffect DEF mem
        <5>5. CASE call[r].step = "disable" /\ End(r, result) /\ releaseDisabled(r)
          BY <1>0, <2>2, <4>0, <5>5, AnswerEffect, ReleaseEffect
        <5> QED BY <4>1, <5>1, <5>2, <5>3, <5>4, <5>5, CallEffect
      <4>2. CASE ~\E result \in {"ok", "failed", "expired"} : CallEnds(r, result)
        <5>1. pc'[r] \in Calling /\ UNCHANGED mem
          BY <1>0, <3>3, <4>2 DEF Cloud, LookToken, Post, RefreshToken, StoreToken, Repost, TypeOK
        <5>2. call'[r].step = call[r].step /\ call'[r].kind = call[r].kind
          BY <1>0, <3>3, <4>2 DEF Cloud, LookToken, Post, RefreshToken, StoreToken, Repost, TypeOK,
             CallTypes
        <5> QED BY <1>0, <2>2, <4>0, <5>1, <5>2 DEF mem
      <4> QED BY <2>2, <4>1, <4>2
    <3>4. CASE RecordAudit(r)
      <4>1. pc'[r] = "end" /\ slot'[r] \in {"held", "back"} /\ user'[r] = user[r]
            /\ pc[r] = "audit"
        BY <1>0, <3>4, AnswerEffect, ReleaseEffect DEF RecordAudit, TypeOK
      <4> QED BY <1>0, <2>2, <4>1
    <3> QED BY <1>3, <3>1, <3>2, <3>3, <3>4 DEF Act
  <2> QED BY <2>1, <2>2
<1> QED BY <1>1, <1>2, <1>3, NextSplit

\* A repeated call keeps the token it fetched, which the cloud only leaves behind.
LEMMA TokenStep == ASSUME IInv, [Next]_vars PROVE \A r \in Requests : TokenInv(r)'
<1> SUFFICES ASSUME NEW q \in Requests PROVE TokenInv(q)'
  OBVIOUS
<1>0. TypeOK /\ TokenInv(q) /\ cloud \in Nat
  BY StreamAssumption DEF IInv, TypeOK, Tokens
<1> USE DEF TokenInv
<1>1. CASE UNCHANGED vars \/ Age
  BY <1>0, <1>1 DEF vars, Age
<1>2. CASE Rotate
  BY <1>0, <1>2 DEF Rotate
<1>3. CASE Restart
  <2>1. answer'[q] = answer[q] /\ cloud' = cloud
    BY <1>3 DEF Restart
  <2>2. answer[q] = "expired" => call'[q].got = call[q].got
    BY <1>0, <1>3 DEF Restart, NoCall, TypeOK, CallTypes
  <2>3. pc'[q] \in {"new", "end"} /\ (pc[q] = "end" => pc'[q] = "end")
    BY <1>0, <1>3 DEF Restart
  <2> QED BY <1>0, <2>1, <2>2, <2>3
<1>4. ASSUME NEW r \in Requests, Act(r) PROVE TokenInv(q)'
  <2>1. CASE q # r
    BY <1>0, <1>4, <2>1, OthersStep
  <2>2. CASE q = r
    <3>0. pc[r] # "end" /\ answer[r] # "expired" /\ cloud' = cloud
      BY <1>0, <1>4, <2>2 DEF Act, Arrive, Admit, Cloud, getLiveURL, getPlaybackURL,
         getRecordSegments, disableURL, Begin, GetLiveURL, GetPlaybackURL, GetRecordSegments,
         DisableURL, Start, LookToken, Post, RefreshToken, StoreToken, Repost, RecordAudit
    <3>1. ASSUME pc'[r] \notin {"store", "repost"}, answer'[r] # "expired" PROVE TokenInv(q)'
      BY <2>2, <3>1
    <3>2. CASE Arrive(r)
      <4>1. pc'[r] \in {"admit", "end"} /\ answer'[r] \in {answer[r], "failed"}
        BY <1>0, <3>2, AnswerEffect DEF Arrive, getLiveURL, getPlaybackURL, getRecordSegments,
           disableURL, Begin, TypeOK
      <4> QED BY <3>0, <3>1, <4>1
    <3>3. CASE Admit(r)
      <4>1. pc'[r] \in {"look", "end"} /\ answer'[r] \in {answer[r], "failed"}
        BY <1>0, <3>3, AnswerEffect DEF Admit, GetLiveURL, GetPlaybackURL, GetRecordSegments,
           DisableURL, Start, Steps
      <4> QED BY <3>0, <3>1, <4>1
    <3>4. ASSUME NEW result \in {"ok", "failed"}, CallEnds(r, result) PROVE TokenInv(q)'
      <4>1. pc'[r] \in {"look", "audit", "end"} /\ answer'[r] \in {answer[r], "ok", "failed"}
        BY <1>0, <3>4, CallEffect, AnswerEffect DEF Steps, TypeOK
      <4> QED BY <3>0, <3>1, <4>1
    <3>5. CASE LookToken(r)
      BY <1>0, <3>0, <3>1, <3>5 DEF LookToken, TypeOK
    <3>6. CASE Post(r)
      <4>1. CASE pc' = [pc EXCEPT ![r] = "refresh"] /\ UNCHANGED <<mem, answer>>
        BY <1>0, <3>0, <3>1, <4>1 DEF TypeOK
      <4> QED BY <3>4, <3>6, <4>1 DEF Post
    <3>7. CASE RefreshToken(r)
      <4>1. CASE /\ call' = [call EXCEPT ![r].got = cloud] /\ pc' = [pc EXCEPT ![r] = "store"]
                 /\ UNCHANGED <<mem, answer>>
        <5>1. call'[r].got = cloud /\ pc'[r] = "store" /\ answer'[r] = answer[r]
          BY <1>0, <4>1 DEF TypeOK, CallTypes
        <5> QED BY <1>0, <2>2, <3>0, <5>1
      <4> QED BY <3>4, <3>7, <4>1 DEF RefreshToken
    <3>8. CASE StoreToken(r)
      <4>1. call'[r].token = call[r].got /\ call'[r].got = call[r].got
        BY <1>0, <3>8 DEF StoreToken, TypeOK, CallTypes
      <4>2. pc[r] = "store" /\ pc'[r] \in {"post", "repost"} /\ answer'[r] = answer[r]
        BY <1>0, <3>8 DEF StoreToken, TypeOK
      <4> QED BY <1>0, <2>2, <3>0, <4>1, <4>2
    <3>9. CASE Repost(r)
      <4>1. ASSUME call[r].token # cloud, CallEnds(r, "expired") PROVE TokenInv(q)'
        <5>1. call[r].got \in 0..cloud /\ call[r].got # cloud
          BY <1>0, <2>2, <3>9, <4>1 DEF Repost
        <5>2. CASE End(r, "expired")
          <6>1. pc'[r] = "end" /\ call'[r].got = call[r].got
            BY <1>0, <5>2, AnswerEffect
          <6> QED BY <2>2, <3>0, <5>1, <6>1
        <5>3. CASE ~End(r, "expired")
          <6>1. pc'[r] \in {"look", "audit"} /\ answer'[r] = answer[r]
            BY <1>0, <4>1, <5>3, CallEffect, AnswerEffect DEF Steps, TypeOK
          <6> QED BY <3>0, <3>1, <6>1
        <5> QED BY <5>2, <5>3
      <4> QED BY <3>4, <3>9, <4>1 DEF Repost
    <3>10. CASE RecordAudit(r)
      <4>1. pc'[r] = "end" /\ answer'[r] \in {"ok", "failed"}
        BY <1>0, <3>10, AnswerEffect DEF RecordAudit
      <4> QED BY <3>1, <4>1
    <3> QED BY <1>4, <3>2, <3>3, <3>5, <3>6, <3>7, <3>8, <3>9, <3>10 DEF Act, Cloud
  <2> QED BY <2>1, <2>2
<1> QED BY <1>1, <1>2, <1>3, <1>4, NextSplit

\* The streams of a user are determined by owners and slots.
LEMMA StreamsSame ==
    ASSUME \A r \in Requests : /\ slot'[r] \in {"taken", "held"} <=> slot[r] \in {"taken", "held"}
                               /\ slot[r] \in {"taken", "held"} => user'[r] = user[r]
    PROVE  \A u : Streams(u)' = Streams(u)
BY DEF Streams

\* Taking a slot counts one more stream of its user.
LEMMA TakeCounts ==
    ASSUME IInv, NEW r \in Requests, user[r] \in Users, slot[r] = "none", UNCHANGED user,
           NEW isAdmin \in BOOLEAN, acquireConcurrency(r, isAdmin)
    PROVE  \A u \in Users : CountInv(u)'
<1> SUFFICES ASSUME NEW u \in Users PROVE CountInv(u)'
  OBVIOUS
<1>0. TypeOK /\ CountInv(u) /\ active[u] \in Nat /\ stray[u] \in Nat
  BY StreamAssumption DEF IInv, TypeOK
<1>1. slot' = [slot EXCEPT ![r] = "taken"] /\ stray' = stray
      /\ active' = [active EXCEPT ![user[r]] = active[user[r]] + 1]
  BY DEF acquireConcurrency
<1>2. CASE u = user[r]
  <2>1. Streams(u)' = Streams(u) \cup {r} /\ r \notin Streams(u)
    BY <1>0, <1>1, <1>2 DEF Streams, TypeOK
  <2>2. active'[u] = active[u] + 1
    BY <1>0, <1>1, <1>2 DEF TypeOK
  <2>3. IsFiniteSet(Streams(u)') /\ Cardinality(Streams(u)') = Cardinality(Streams(u)) + 1
    BY <1>0, <2>1, FS_AddElement DEF CountInv
  <2>4. Cardinality(Streams(u)) \in Nat
    BY <1>0, FS_CardinalityType DEF CountInv
  <2> QED BY <1>0, <1>1, <2>2, <2>3, <2>4 DEF CountInv
<1>3. CASE u # user[r]
  <2>1. Streams(u)' = Streams(u)
    BY <1>0, <1>1, <1>3 DEF Streams, TypeOK
  <2>2. active'[u] = active[u]
    BY <1>0, <1>1, <1>3 DEF TypeOK
  <2> QED BY <1>0, <1>1, <2>1, <2>2 DEF CountInv
<1> QED BY <1>2, <1>3

\* Giving the slot of a stream back, its start's or that of an address, counts one
\* stream less, even when a stray release has emptied the count before.
LEMMA GiveCounts ==
    ASSUME IInv, NEW o \in Users, NEW s \in Requests, user[s] = o, slot[s] \in {"taken", "held"},
           UNCHANGED <<user, stray>>, active' = Released(o), slot' = [slot EXCEPT ![s] = "back"]
    PROVE  \A u \in Users : CountInv(u)'
<1> SUFFICES ASSUME NEW u \in Users PROVE CountInv(u)'
  OBVIOUS
<1>0. TypeOK /\ CountInv(u) /\ active[u] \in Nat /\ stray[u] \in Nat
  BY StreamAssumption DEF IInv, TypeOK
<1>1. CASE u = o
  <2>1. Streams(u)' = Streams(u) \ {s} /\ s \in Streams(u)
    BY <1>0, <1>1 DEF Streams, TypeOK
  <2>2. active'[u] = IF active[u] > 0 THEN active[u] - 1 ELSE active[u]
    BY <1>0, <1>1 DEF Released, TypeOK
  <2>3. IsFiniteSet(Streams(u)') /\ Cardinality(Streams(u)') = Cardinality(Streams(u)) - 1
    BY <1>0, <2>1, FS_RemoveElement DEF CountInv
  <2>4. Cardinality(Streams(u)) \in Nat /\ Cardinality(Streams(u)') \in Nat
    BY <1>0, <2>3, FS_CardinalityType DEF CountInv
  <2> QED BY <1>0, <2>2, <2>3, <2>4 DEF CountInv
<1>2. CASE u # o
  <2>1. Streams(u)' = Streams(u)
    BY <1>0, <1>2 DEF Streams, TypeOK
  <2>2. active'[u] = active[u]
    BY <1>0, <1>2 DEF Released, TypeOK
  <2> QED BY <1>0, <2>1, <2>2 DEF CountInv
<1> QED BY <1>1, <1>2

\* A disable request without a stream of its own is counted as stray.
LEMMA StrayCounts ==
    ASSUME IInv, NEW o \in Users, UNCHANGED <<user, slot>>, active' = Released(o),
           stray' = [stray EXCEPT ![o] = @ + 1]
    PROVE  \A u \in Users : CountInv(u)'
<1> SUFFICES ASSUME NEW u \in Users PROVE CountInv(u)'
  OBVIOUS
<1>0. TypeOK /\ CountInv(u) /\ active[u] \in Nat /\ stray[u] \in Nat
  BY StreamAssumption DEF IInv, TypeOK
<1>1. Streams(u)' = Streams(u)
  BY DEF Streams
<1>2. active'[u] = IF u = o /\ active[u] > 0 THEN active[u] - 1 ELSE active[u]
  BY <1>0 DEF Released, TypeOK
<1>3. stray'[u] = IF u = o THEN stray[u] + 1 ELSE stray[u]
  BY <1>0 DEF TypeOK
<1>4. Cardinality(Streams(u)) \in Nat
  BY <1>0, FS_CardinalityType DEF CountInv
<1> QED BY <1>0, <1>1, <1>2, <1>3, <1>4 DEF CountInv

\* Both releases keep the counts.
LEMMA ReleaseCounts ==
    ASSUME IInv, NEW r \in Requests, user[r] \in Users, UNCHANGED user,
           \/ releaseStart(r) /\ slot[r] = "taken"
           \/ releaseDisabled(r)
    PROVE  \A u \in Users : CountInv(u)'
<1>1. CASE releaseStart(r) /\ slot[r] = "taken"
  BY <1>1, GiveCounts DEF releaseStart
<1>2. CASE releaseDisabled(r)
  <2> DEFINE own == /\ call[r].target # None /\ user[call[r].target] = user[r]
                /\ slot[call[r].target] = "held"
  <2>1. CASE own
    <3>1. call[r].target \in Requests
      BY <2>1 DEF IInv, TypeOK, CallTypes
    <3> QED BY <1>2, <2>1, <3>1, GiveCounts DEF releaseDisabled
  <2>2. CASE ~own
    BY <1>2, <2>2, StrayCounts DEF releaseDisabled
  <2> QED BY <2>1, <2>2
<1> QED BY <1>1, <1>2

\* Every step keeps the counts of all users.
LEMMA CountStep == ASSUME IInv, [Next]_vars PROVE \A u \in Users : CountInv(u)'
<1>0. TypeOK /\ \A r \in Requests : SlotInv(r)
  BY DEF IInv
<1>a. ASSUME UNCHANGED <<active, stray>>,
             \A r \in Requests :
                 /\ slot'[r] \in {"taken", "held"} <=> slot[r] \in {"taken", "held"}
                 /\ slot[r] \in {"taken", "held"} => user'[r] = user[r]
      PROVE  \A u \in Users : CountInv(u)'
  BY <1>a, StreamsSame DEF IInv, CountInv
<1>1. CASE UNCHANGED vars \/ Age \/ Rotate
  <2>1. UNCHANGED <<active, stray, slot, user>>
    BY <1>1 DEF vars, Age, Rotate, mem
  <2> QED BY <1>a, <2>1
<1>2. CASE Restart
  <2> SUFFICES ASSUME NEW u \in Users PROVE CountInv(u)'
    OBVIOUS
  <2>1. Streams(u)' = {}
    <3>1. \A r \in Requests : slot'[r] \notin {"taken", "held"}
      BY <1>2 DEF Restart
    <3> QED BY <3>1 DEF Streams
  <2>2. active'[u] = 0 /\ stray'[u] \in Nat
    BY <1>0, <1>2 DEF Restart, TypeOK
  <2> QED BY <2>1, <2>2, FS_EmptySet DEF CountInv
<1>3. ASSUME NEW r \in Requests, Act(r) PROVE \A u \in Users : CountInv(u)'
  <2>1. CASE Arrive(r)
    <3>1. pc[r] = "new" /\ UNCHANGED mem /\ \A q \in Requests \ {r} : user'[q] = user[q]
      BY <1>0, <2>1 DEF Arrive, getLiveURL, getPlaybackURL, getRecordSegments, disableURL,
         Begin, TypeOK
    <3>2. slot[r] = "none"
      BY <1>0, <3>1 DEF SlotInv
    <3> QED BY <1>a, <3>1, <3>2 DEF mem
  <2>2. CASE Admit(r)
    <3>1. pc[r] = "admit" /\ UNCHANGED user
      BY <2>2 DEF Admit, GetLiveURL, GetPlaybackURL, GetRecordSegments, DisableURL, Start
    <3>2. user[r] \in Users /\ slot[r] = "none"
      BY <1>0, <3>1 DEF SlotInv
    <3>3. CASE UNCHANGED mem
      BY <1>a, <3>1, <3>3 DEF mem
    <3>4. CASE ~UNCHANGED mem
      <4>1. (\E isAdmin \in BOOLEAN : acquireConcurrency(r, isAdmin)) \/ releaseDisabled(r)
        BY <2>2, <3>4 DEF Admit, GetLiveURL, GetPlaybackURL, GetRecordSegments, DisableURL, Start
      <4> QED BY <3>1, <3>2, <4>1, TakeCounts, ReleaseCounts
    <3> QED BY <3>3, <3>4
  <2>3. CASE Cloud(r)
    <3>1. pc[r] \in Calling /\ UNCHANGED user
      BY <2>3 DEF Cloud, LookToken, Post, RefreshToken, StoreToken, Repost, Calling
    <3>2. user[r] \in Users
      BY <1>0, <3>1 DEF SlotInv, Calling
    <3>3. CASE UNCHANGED mem
      BY <1>a, <3>1, <3>3 DEF mem
    <3>4. CASE ~UNCHANGED mem
      <4>1. \E result \in {"ok", "failed", "expired"} : CallEnds(r, result)
        BY <2>3, <3>4 DEF Cloud, LookToken, Post, RefreshToken, StoreToken, Repost
      <4>2. \/ call[r].step = "address" /\ releaseStart(r)
            \/ releaseDisabled(r)
        BY <3>4, <4>1, CallEffect
      <4>3. call[r].step = "address" => slot[r] = "taken"
        BY <1>0, <3>1 DEF SlotInv, Calling
      <4> QED BY <3>1, <3>2, <4>2, <4>3, ReleaseCounts
    <3> QED BY <3>3, <3>4
  <2>4. CASE RecordAudit(r)
    <3>1. pc[r] = "audit" /\ UNCHANGED user
      BY <2>4 DEF RecordAudit
    <3>2. user[r] \in Users /\ slot[r] = "taken"
      BY <1>0, <3>1 DEF SlotInv, Calling
    <3>3. CASE slot' = [slot EXCEPT ![r] = "held"] /\ UNCHANGED <<active, stray>>
      <4>1. \A q \in Requests : slot'[q] \in {"taken", "held"} <=> slot[q] \in {"taken", "held"}
        BY <1>0, <3>2, <3>3 DEF TypeOK
      <4> QED BY <1>a, <3>1, <3>3, <4>1
    <3>4. CASE releaseStart(r)
      BY <3>1, <3>2, <3>4, ReleaseCounts
    <3> QED BY <2>4, <3>3, <3>4 DEF RecordAudit
  <2> QED BY <1>3, <2>1, <2>2, <2>3, <2>4 DEF Act
<1> QED BY <1>1, <1>2, <1>3, NextSplit

\* The initial states satisfy the invariant.
LEMMA InitInv == Init => IInv
<1> SUFFICES ASSUME Init PROVE IInv
  OBVIOUS
<1>1. TypeOK
  <2>1. 0 \in Tokens /\ 0 \in 0..AdminMax
    BY StreamAssumption DEF Tokens
  <2>2. call \in [Requests -> CallTypes]
    BY DEF Init, NoCall, CallTypes
  <2> QED BY <2>1, <2>2 DEF Init, TypeOK
<1>2. \A r \in Requests : SlotInv(r) /\ TokenInv(r)
  BY DEF Init, SlotInv, TokenInv, Calling
<1>3. \A u \in Users : CountInv(u)
  <2> SUFFICES ASSUME NEW u \in Users PROVE CountInv(u)
    OBVIOUS
  <2>1. Streams(u) = {} /\ active[u] = 0 /\ stray[u] = 0
    BY DEF Init, Streams
  <2> QED BY <2>1, FS_EmptySet DEF CountInv
<1> QED BY <1>1, <1>2, <1>3 DEF IInv

\* The inductive invariant of slots, tokens and counts, with the types.
THEOREM StreamsInductive == Spec => []IInv
<1>1. IInv /\ [Next]_vars => IInv'
  BY TypeStep, SlotStep, TokenStep, CountStep DEF IInv
<1> QED BY <1>1, InitInv, PTL DEF Spec

\* No path of the handlers leaks a slot, and only a disable request for an address
\* without a slot of the caller makes a count too small (acquireConcurrency and
\* releaseConcurrency), for any limits and any number of requests and restarts.
THEOREM NoSlotLeaks == Spec => []SlotsAccounted
<1>1. IInv => SlotsAccounted
  BY DEF IInv, CountInv, SlotsAccounted
<1> QED BY <1>1, StreamsInductive, PTL

\* A call that is told its token expired refreshes it, also when it had fetched that
\* token itself, and the repetition fails for an expired token only if the cloud has
\* changed it since: no token that another request left in the cache is ever used
\* for it (accessToken, refreshToken and the calls that use them).
THEOREM OneRefreshEnough == Spec => []OneRefreshSuffices
<1>1. IInv => OneRefreshSuffices
  <2>1. ASSUME NEW r \in Requests, TypeOK, TokenInv(r), answer[r] = "expired"
        PROVE  call[r].got < cloud
    <3>1. cloud \in Nat
      BY <2>1, StreamAssumption DEF TypeOK, Tokens
    <3> QED BY <2>1, <3>1 DEF TokenInv
  <2> QED BY <2>1 DEF IInv, OneRefreshSuffices
<1> QED BY <1>1, StreamsInductive, PTL
=============================================================================
