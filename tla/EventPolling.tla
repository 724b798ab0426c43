----------------------------- MODULE EventPolling -----------------------------
(***************************************************************************)
(* Polling one GitHub source.  poll_source reads the source's checkpoint,  *)
(* asks GitHub, page by page, for what changed since the watermark less an *)
(* overlap, stages what it is given, and publishes the staged versions and *)
(* the new watermark in one transaction.  A poll that fails or dies        *)
(* publishes nothing.                                                      *)
(*                                                                         *)
(* GitHub's side is a set of items, numbered in the order of creation, and *)
(* the instant each was last changed.  A change shows in listings only     *)
(* after a delay.  Issues and comments are listed by the time of their     *)
(* last change, from a given instant on; workflow runs are listed newest   *)
(* first, all of them, and filtered by the poller.                         *)
(*                                                                         *)
(* What comes of a published event is DeliveryQueue.  No name is common to *)
(* the two modules, so that one module can extend both.                    *)
(***************************************************************************)
EXTENDS Naturals, FiniteSets

CONSTANTS
    Items,     \* the source's items
    Pollers,   \* processes that tick: the service and the command line
    PageSize,  \* items on a page (per_page)
    Overlap,   \* source_checkpoint.overlap_seconds
    Delay,     \* the longest a change takes to show in a listing
    MaxTime,   \* bound of the clock
    MaxChanges,\* bound on the changes of items
    Listings,  \* how the source may be listed: "updated", "created"
    Modes      \* disturbances: "crash", "fail"

ASSUME NumbersAssumption ==
    /\ PageSize \in Nat \ {0}
    /\ {Overlap, Delay, MaxTime, MaxChanges} \subseteq Nat
ASSUME ItemsAssumption == Items \subseteq Nat \ {0}
ASSUME OverlapAssumption == Delay <= Overlap
ASSUME ListingsAssumption == Listings \subseteq {"updated", "created"}
ASSUME PollModesAssumption == Modes \subseteq {"crash", "fail"}

VARIABLES
    now,       \* the time
    listing,   \* how this source is listed
    changes,   \* how many changes there were
    upd,       \* upd[i]: when item i was last changed, 0 before it exists
    shown,     \* shown[i]: the change of i that listings show
    wm,        \* source_checkpoint.watermark
    moved,     \* moved[i]: the version of i that moved to an earlier page of a poll (history)
    slow,      \* slow[i]: the version of i that a poll slower than the overlap passed (history)
    observed,  \* observed[i]: the newest version of i in observed_event
    at,        \* at[p]: where poll_source is
    during,    \* during[p]: items whose change came to show since the poll began (history)
    query,     \* query[p]: query_watermark
    page,      \* page[p]: the page it asks for next
    top,       \* top[p]: maximum
    staged     \* staged[p][i]: the newest version of i in its snapshot_event

github == <<now, listing, changes, upd, shown, moved, slow>>
store  == <<wm, observed>>
poll   == <<during, query, page, top, staged>>
pollVars == <<github, store, at, poll>>

Times == 0..MaxTime

\* A version is the time of its change; 0 is none, and a new snapshot has none.
NoVersions == [i \in Items |-> 0]

Newest(f, g) == [i \in Items |-> IF f[i] > g[i] THEN f[i] ELSE g[i]]

PollTypeOK ==
    /\ now \in Times
    /\ listing \in Listings
    /\ changes \in 0..MaxChanges
    /\ upd \in [Items -> Times]
    /\ shown \in [Items -> Times]
    /\ moved \in [Items -> Times]
    /\ slow \in [Items -> Times]
    /\ wm \in Times
    /\ observed \in [Items -> Times]
    /\ at \in [Pollers -> {"idle", "fetch", "finish"}]
    /\ during \in [Pollers -> SUBSET Items]
    /\ query \in [Pollers -> Times]
    /\ page \in [Pollers -> 1..(Cardinality(Items) + 1)]
    /\ top \in [Pollers -> Times]
    /\ staged \in [Pollers -> [Items -> Times]]

PollInit ==
    /\ now = 0
    /\ listing \in Listings
    /\ changes = 0
    /\ upd = [i \in Items |-> 0]
    /\ shown = [i \in Items |-> 0]
    /\ moved = [i \in Items |-> 0]
    /\ slow = [i \in Items |-> 0]
    /\ wm = 0
    /\ observed = NoVersions
    /\ at = [p \in Pollers |-> "idle"]
    /\ during = [p \in Pollers |-> {}]
    /\ query = [p \in Pollers |-> 0]
    /\ page = [p \in Pollers |-> 1]
    /\ top = [p \in Pollers |-> 0]
    /\ staged = [p \in Pollers |-> NoVersions]

-----------------------------------------------------------------------------
(* GitHub.                                                                 *)

Polling == {p \in Pollers : at[p] = "fetch"}

\* An item is created or changed.  Time has the resolution of updated_at.
Update(i) ==
    /\ now > 0 /\ changes < MaxChanges
    /\ upd[i] # now
    /\ \A j \in Items : j < i => upd[j] # 0
    /\ changes' = changes + 1
    /\ upd' = [upd EXCEPT ![i] = now]
    /\ moved' = [moved EXCEPT ![i] = 0]
    /\ slow' = [slow EXCEPT ![i] = 0]
    /\ UNCHANGED <<now, listing, shown, store, at, poll>>

\* Time passes, however long a poll takes; no change takes longer than the delay to show.
Tick ==
    /\ now < MaxTime
    /\ \A i \in Items : shown[i] # upd[i] => now < upd[i] + Delay
    /\ now' = now + 1
    /\ UNCHANGED <<listing, changes, upd, shown, moved, slow, store, at, poll>>

\* What GitHub lists for a query, in which order.
Listed(q) == {i \in Items : shown[i] # 0 /\ (listing = "updated" => shown[i] >= q)}

Before(i, j) ==
    IF listing = "updated"
    THEN shown[i] < shown[j] \/ (shown[i] = shown[j] /\ i < j)
    ELSE i > j

\* How many come before i, and whether i is on the n-th page.
Place(i, q) == Cardinality({j \in Listed(q) : Before(j, i)})

OnPage(i, q, n) == PageSize * (n - 1) <= Place(i, q) /\ Place(i, q) < PageSize * n

\* Listings show the item's last change.  An item that was listed by an earlier change
\* goes to the end of a listing by time of change, what came after it moves up, and what
\* was first on the page that a poll asks for next goes to the page before.
Index(i) ==
    /\ shown[i] # upd[i]
    /\ shown' = [shown EXCEPT ![i] = upd[i]]
    /\ moved' = [j \in Items |->
                   IF /\ listing = "updated" /\ Before(i, j)
                      /\ \E p \in Polling : /\ {i, j} \subseteq Listed(query[p])
                                            /\ Place(j, query[p]) = PageSize * (page[p] - 1)
                   THEN shown[j] ELSE moved[j]]
    /\ during' = [p \in Pollers |-> IF at[p] = "idle" THEN {} ELSE during[p] \cup {i}]
    /\ UNCHANGED <<now, listing, changes, upd, slow, store, at, query, page, top, staged>>

-----------------------------------------------------------------------------
(* poll_source.                                                            *)

\* Variant: nothing is read twice.
OverlapNone(watermark) == watermark

\* overlap_watermark.
OverlapWatermark(watermark) == IF watermark > Overlap THEN watermark - Overlap ELSE 0

\* fetch_page: the page that GitHub answers with.
RawPage(p) == {i \in Listed(query[p]) : OnPage(i, query[p], page[p])}

\* Variant: another page is asked for whatever this one held.
MorePagesAlways(raw) == TRUE

\* A full page is followed by another.
MorePages(raw) == Cardinality(raw) = PageSize

\* poll_source reads the checkpoint and begins a snapshot.
BeginPoll(p) ==
    /\ at[p] = "idle"
    /\ at' = [at EXCEPT ![p] = "fetch"]
    /\ during' = [during EXCEPT ![p] = {}]
    /\ query' = [query EXCEPT ![p] = OverlapWatermark(wm)]
    /\ page' = [page EXCEPT ![p] = 1]
    /\ top' = [top EXCEPT ![p] = wm]
    /\ staged' = [staged EXCEPT ![p] = NoVersions]
    /\ UNCHANGED <<github, store>>

\* event_identity: the version of an item is the instant of its last change.
EventVersion(i) == shown[i]

\* stage_observation, for the items of a page.
StageObservations(old, S) == Newest(old, [i \in Items |-> IF i \in S THEN EventVersion(i) ELSE 0])

MaxOf(S) == CHOOSE t \in S : \A u \in S : u <= t

\* One page is read and staged.
FetchPage(p) ==
    /\ at[p] = "fetch"
    /\ LET raw  == RawPage(p)
           kept == {i \in raw : shown[i] >= query[p]}
       IN  /\ staged' = [staged EXCEPT ![p] = StageObservations(@, kept)]
           /\ top' = [top EXCEPT ![p] = MaxOf({@} \cup {EventVersion(i) : i \in kept})]
           /\ IF MorePages(raw)
              THEN page' = [page EXCEPT ![p] = @ + 1] /\ UNCHANGED at
              ELSE at' = [at EXCEPT ![p] = "finish"] /\ UNCHANGED page
    /\ UNCHANGED <<github, store, during, query>>

\* Everything a poll keeps between two steps is gone.
Drop(p) ==
    /\ at' = [at EXCEPT ![p] = "idle"]
    /\ during' = [during EXCEPT ![p] = {}]
    /\ query' = [query EXCEPT ![p] = 0]
    /\ page' = [page EXCEPT ![p] = 1]
    /\ top' = [top EXCEPT ![p] = 0]
    /\ staged' = [staged EXCEPT ![p] = NoVersions]

\* finish_snapshot: one transaction.
FinishSnapshot(p, complete) ==
    IF complete
    THEN wm' = top[p] /\ observed' = Newest(observed, staged[p])
    ELSE UNCHANGED store

\* The last page has been read.  A change that came to show after the poll began may have
\* been missed; a poll that went on for longer than the overlap less the delay may then
\* have seen one so much later that the watermark leaves the first behind.
CompletePoll(p) ==
    /\ at[p] = "finish"
    /\ FinishSnapshot(p, TRUE)
    /\ slow' = [i \in Items |->
                  IF i \in during[p] /\ upd[i] + Overlap < top[p] THEN upd[i] ELSE slow[i]]
    /\ Drop(p)
    /\ UNCHANGED <<now, listing, changes, upd, shown, moved>>

\* A read of a page fails, or of an item's parent, pull request or workflow.
ReadFails(p) == "fail" \in Modes /\ at[p] = "fetch"

FailPoll(p) ==
    /\ ReadFails(p)
    /\ FinishSnapshot(p, FALSE)
    /\ Drop(p)
    /\ UNCHANGED github

\* The process is lost; its snapshot stays "collecting" and is never looked at.
LosePoller(p) ==
    /\ "crash" \in Modes
    /\ at[p] # "idle"
    /\ Drop(p)
    /\ UNCHANGED <<github, store>>

PollNext ==
    \/ \E i \in Items : Update(i) \/ Index(i)
    \/ Tick
    \/ \E p \in Pollers :
         BeginPoll(p) \/ FetchPage(p) \/ CompletePoll(p) \/ FailPoll(p) \/ LosePoller(p)

PollSpec == PollInit /\ [][PollNext]_pollVars

-----------------------------------------------------------------------------
(* Properties.                                                             *)

(***************************************************************************)
(* A change that no later poll will ask for, because it is older than the  *)
(* watermark less the overlap, has been published.  Both bounds of the     *)
(* query are inclusive, and the watermark is only moved by a snapshot that *)
(* is complete (delivery.overlap_watermark, store.finish_snapshot).  There *)
(* are two exceptions, both of changes made while a poll was reading: an   *)
(* item that moved to an earlier page meanwhile; and a change that came to *)
(* show after the poll had begun, when the poll then saw another, made     *)
(* more than the overlap later.  The second takes a poll longer than the   *)
(* overlap less the delay, and nothing in poll_source bounds how long the  *)
(* pages take.                                                             *)
(***************************************************************************)
NothingLost ==
    \A i \in Items :
        upd[i] # 0 /\ upd[i] + Overlap < wm => upd[i] \in {observed[i], moved[i], slow[i]}

=============================================================================
