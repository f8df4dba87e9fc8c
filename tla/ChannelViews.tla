---------------------------- MODULE ChannelViews ----------------------------
(***************************************************************************)
(* What the program shows of a recorder's channels: the H5 monitor's list  *)
(* of stores and page of a store, the channels it agrees to play, the      *)
(* numbers of the store list and the exported sheet.  Each of them is a    *)
(* query of its own over the rows of ChannelMapping, with its own idea of  *)
(* a channel that counts.                                                  *)
(***************************************************************************)
EXTENDS ChannelMapping, SequencesExt, Filtering, Sorting

CONSTANTS
    Neighbour,  \* the channels of a second store, by id
    Text,       \* channel -> place of its note or name in the order of texts, 0 if
                \* it has none
    Waiting     \* the channels whose names speak of a waiting area

Second == DOMAIN Neighbour
Ids == Nos \cup Second

\* The schema checks channel_no > 0; the number of a room is a number.
ASSUME ViewsAssumption ==
    /\ 0 \notin Nos /\ Nums \subseteq Nat \cup {None} /\ None \notin Nat
    /\ Second \subseteq Nat \ Nos /\ IsFiniteSet(Second)
    /\ \A c \in Second :
          /\ Neighbour[c].no \in Nat \ {0}
          /\ Neighbour[c].active \in BOOLEAN /\ Neighbour[c].keys \in BOOLEAN
          /\ Neighbour[c].num \in Nat \cup {None}
    /\ Text \in [Ids -> Nat]

---------------------------------------------------------------------------
(* The H5 monitor, which knows a store by its organisation id.  Nothing    *)
(* keeps two stores from having one: "org" is the set of the stores with   *)
(* the id that is asked for, "home" the one of them that a query for one   *)
(* store returns.  "keys" says whether the process has the credentials of  *)
(* the recorder's account; those of the second store are a constant.       *)

StoreOf(c) == IF c \in Nos THEN "own" ELSE "second"
NoOf(c) == IF c \in Nos THEN c ELSE Neighbour[c].no
RowOf(c) == IF c \in Nos THEN channels[c] ELSE Neighbour[c]
KeysOf(c, keys) == IF c \in Nos THEN keys ELSE Neighbour[c].keys

\* mysqlH5MonitorChannelQuery: is_active alone decides, not the status.
MonitorChannelQuery ==
    {c \in Ids : /\ c \in Nos => recorder # Missing /\ channels[c] # Missing
                 /\ RowOf(c).active /\ NoOf(c) > 0}

\* A channel as the repository hands it out.
ApplyCredentials(c, keys) ==
    [id |-> c, store |-> StoreOf(c), no |-> NoOf(c), active |-> RowOf(c).active,
     keys |-> KeysOf(c, keys)]

\* scanH5MonitorChannels leaves out the channels without credentials.
ScanMonitorChannels(found) == {c \in found : c.keys}

OfOrg(org) == {c \in MonitorChannelQuery : StoreOf(c) \in org}
ListActiveChannelsByOrgID(org, keys) ==
    ScanMonitorChannels({ApplyCredentials(c, keys) : c \in OfOrg(org)})

GetChannelByID(c, keys) == {ApplyCredentials(d, keys) : d \in {c} \cap MonitorChannelQuery}

ValidChannel(c) == c.active /\ c.no > 0 /\ c.keys

\* Mutant: a channel of any store will do.
Plays_AnyStore(c, home, keys) == \E d \in GetChannelByID(c, keys) : ValidChannel(d)

\* validateChannel of the stream routes: the channel must be of the store that the
\* organisation id finds.
Plays(c, home, keys) ==
    \E d \in GetChannelByID(c, keys) : d.store = home /\ ValidChannel(d)

\* ListMonitorStores counts in SQL by organisation id, store and account, and adds the
\* counts of the known accounts; a store with none is not listed.
AvailableChannelCount(org, keys) == Cardinality({c \in OfOrg(org) : KeysOf(c, keys)})

ChannelCategory(c) ==
    CASE RowOf(c).type = "consultation" -> "consultation"
      [] RowOf(c).type \in {"treatment", "vip_treatment"} -> "treatment"
      [] RowOf(c).type = "beauty" -> "beauty"
      [] OTHER -> IF c \in Waiting THEN "front_waiting" ELSE "other"

Number(c) == IF RowOf(c).num = None THEN 0 ELSE RowOf(c).num
Rooms == {"consultation", "treatment", "beauty"}

\* sortMonitorChannels: rooms by number, the rest by text.  Channels that tie after that
\* are of two recorders and keep the order of the query, which has none for them.
Before(category, l, r) ==
    IF category \in Rooms /\ Number(l) # Number(r) THEN Number(l) < Number(r)
    ELSE IF Text[l] # Text[r] THEN Text[l] < Text[r]
    ELSE IF NoOf(l) # NoOf(r) THEN NoOf(l) < NoOf(r)
    ELSE l < r

PageOrder(category) == {pair \in Ids \X Ids : Before(category, pair[1], pair[2])}

Categories == <<"consultation", "treatment", "beauty", "front_waiting", "other">>

\* The groups of the page, each with its channels in order.
GroupChannels(found) ==
    LET valid == {c.id : c \in {x \in found : ValidChannel(x)}}
        Group(category) ==
            [category |-> category,
             channels |-> Sorted({c \in valid : ChannelCategory(c) = category},
                                 PageOrder(category))]
        empty == [category : ToSet(Categories), channels : {<< >>}]
    IN  Without([i \in 1..Len(Categories) |-> Group(Categories[i])], empty)

GetMonitorHome(org, keys) == GroupChannels(ListActiveChannelsByOrgID(org, keys))

---------------------------------------------------------------------------
(* The back office. *)

\* populateStoreListItemMetrics.
ChannelCount == Cardinality({n \in Present : channels[n].active})
FullyConfirmed ==
    /\ ChannelCount > 0
    /\ \A n \in Present : channels[n].active => Confirmed(channels[n].status)

\* listRecorders with listChannelsForStore: the channels in the order of their numbers.
ListRecorderChannels == Sorted(Present, {pair \in Nos \X Nos : pair[1] < pair[2]})

ChannelExportTypeRank(t) ==
    CASE t = "consultation" -> 0
      [] t \in {"treatment", "vip_treatment"} -> 1
      [] t = "beauty" -> 2
      [] OTHER -> 3

\* channelNumberOrNote: a room with a number shows it, any other channel its note,
\* or a dash.  Among texts the dash comes before the digits and notes after them.
ChannelNumberOrNote(n) ==
    IF channels[n].type # None /\ Number(n) > 0 THEN [kind |-> 1, value |-> Number(n)]
    ELSE IF Text[n] > 0 THEN [kind |-> 2, value |-> Text[n]]
    ELSE [kind |-> 0, value |-> 0]

CompareNumberOrText(l, r) ==
    IF l.kind # r.kind THEN l.kind - r.kind ELSE l.value - r.value

AheadInSheet(l, r) ==
    LET rank(n) == ChannelExportTypeRank(channels[n].type)
        text == CompareNumberOrText(ChannelNumberOrNote(l), ChannelNumberOrNote(r))
    IN  IF rank(l) # rank(r) THEN rank(l) < rank(r)
        ELSE IF text # 0 THEN text < 0
        ELSE l < r

\* The order of the sheet.
SheetOrder == {pair \in Nos \X Nos : AheadInSheet(pair[1], pair[2])}

\* Mutant: the status alone says whether a channel is in use.
ChannelMappingExportRows_ByStatus ==
    IF recorder = Missing \/ ~recorder.online THEN <<>>
    ELSE Sorted({n \in Present : channels[n].status # "inactive"}, SheetOrder)

ChannelMappingExportRows ==
    IF recorder = Missing \/ ~recorder.online THEN <<>>
    ELSE Sorted({n \in ToSet(ListRecorderChannels) : Usable(channels[n])}, SheetOrder)

\* ExportChannelMappingExcel: an empty sheet is refused.
Exportable == ChannelMappingExportRows # <<>>

---------------------------------------------------------------------------
(* Properties. *)

\* The page of a store shows every channel that the stream routes agree to play, each
\* once and in one group, and the list of stores announces as many channels as the page
\* shows.  Of what it shows, exactly the channels of the store that the organisation id
\* finds are played: all of them unless two stores have the id, whichever of the two is
\* found and whichever accounts are known.
HomeShowsWhatPlays ==
    \A org \in {{"own"}, {"own", "second"}}, keys \in BOOLEAN :
        LET groups == GetMonitorHome(org, keys)
            shown == FlattenSeq([i \in 1..Len(groups) |-> groups[i].channels])
        IN  /\ Len(shown) = AvailableChannelCount(org, keys)
            /\ Cardinality(ToSet(shown)) = Len(shown)
            /\ \A home \in org :
                  {c \in Ids : Plays(c, home, keys)} = {c \in ToSet(shown) : StoreOf(c) = home}

\* The store list and the monitor count as many channels as the recorder's row
\* stores, and a store counts as fully confirmed exactly when it has channels and
\* nothing is left to recognise.
CountsAgree ==
    recorder # Missing =>
        /\ ChannelCount = recorder.count
        /\ AvailableChannelCount({"own"}, TRUE) = recorder.count
        /\ FullyConfirmed <=> recorder.count > 0 /\ \A n \in Nos : ~Recognizable(n)

\* The recorder's stored count, the store list, the monitor and the sheet agree on
\* how many channels there are, through late recognitions and unlocks of lost
\* channels, which leave rows that are neither active nor marked inactive.
ViewsAgree ==
    /\ CountsAgree
    /\ recorder # Missing =>
         /\ Len(ChannelMappingExportRows) = recorder.count
         /\ Exportable <=> recorder.online
=============================================================================
