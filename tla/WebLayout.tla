------------------------------ MODULE WebLayout ------------------------------
(***************************************************************************)
(* The containers of the web page (webSite/script/layoutManager.js and     *)
(* Container in main.js): opening and closing them, dragging, the layout   *)
(* lock, the layout kept in localStorage over reloads of the page, and the *)
(* intervals that fill them.                                               *)
(*                                                                         *)
(* A container is an inline block with a relative position: it stands at   *)
(* the end of the containers before it in the page, moved by rel.  One     *)
(* line of them and the horizontal axis are modelled.  Three containers    *)
(* stand for all: Cam is filled from camData, AC_BE and AC_VI share a menu *)
(* entry and ask the server at every tick.  The floating mapWrapper, which *)
(* is never opened or closed, is left out.                                 *)
(***************************************************************************)
EXTENDS Integers, Sequences, FiniteSets, SequencesExt

CONSTANTS MaxCreated,  \* bound: containers opened
          MaxMoves,    \* bound: drags and resizes by the user
          MaxLeft      \* bound: places on the line

ASSUME LayoutAssumption ==
  MaxCreated \in Nat /\ MaxMoves \in Nat /\ MaxLeft \in Nat

VARIABLES order,         \* the containers in the page, in the order of the DOM
          div,           \* the div of each: rel, size, filled, movable
          layoutLocked,
          saved,         \* localStorage: containerLayouts
          timed,         \* containers with a running interval
          asked,         \* containers with a request on its way
          ready,         \* sources that have data
          created, moves \* counters for the bounds

vars == <<order, div, layoutLocked, saved, timed, asked, ready, created, moves>>

Id == {"Cam", "AC_BE", "AC_VI"}
Remote == {"AC_BE", "AC_VI"}
Source == [Cam |-> "camData", AC_BE |-> "dccInfo", AC_VI |-> "dccInfo"]
Menu == {<<"Cam">>, <<"AC_BE", "AC_VI">>}

NewDiv == [rel |-> 0, size |-> 0, filled |-> FALSE, movable |-> TRUE]

\* Width without an explicit size: that of the table, "Loading Data..." at first.
Loading == 1
Content == 2

Init ==
  /\ order = <<>>
  /\ div = [c \in Id |-> NewDiv]
  /\ layoutLocked = FALSE
  /\ saved = <<>>
  /\ timed = {}
  /\ asked = {}
  /\ ready = {}
  /\ created = 0 /\ moves = 0

-----------------------------------------------------------------------------
Opened == ToSet(order)

\* One id after the other: a container that is not in the page by then is
\* appended to it.
Appended(ids) ==
  LET page[i \in 0..Len(ids)] ==
        IF i = 0 THEN order
        ELSE IF ids[i] \in ToSet(page[i - 1]) THEN page[i - 1]
             ELSE Append(page[i - 1], ids[i])
  IN page[Len(ids)]

Width(c) == IF div[c].size # 0 THEN div[c].size
            ELSE IF div[c].filled THEN Content ELSE Loading
Widths == [c \in Id |-> Width(c)]

Place(c, page) == CHOOSE i \in DOMAIN page : page[i] = c

\* Where c stands in page without its own rel, when the widths are w.
Flow(c, page, w) ==
  LET end[i \in 0..Len(page)] == IF i = 0 THEN 0 ELSE end[i - 1] + w[page[i]]
  IN end[Place(c, page) - 1]

Left(c) == Flow(c, order, Widths) + div[c].rel

-----------------------------------------------------------------------------
\* Mutant of Create: one test for all containers of a menu entry.
CreateAll(ids) ==
  /\ order' = order \o ids
  /\ timed' = timed \cup ToSet(ids)
  /\ created' = created + Len(order') - Len(order)
  /\ created' <= MaxCreated

\* The containers among ids that are not in the page are appended to it, each
\* with an interval.
Create(ids) ==
  /\ order' = Appended(ids)
  /\ timed' = timed \cup (ToSet(order') \ Opened)
  /\ created' = created + Len(order') - Len(order)
  /\ created' <= MaxCreated

OpenFromMenu(item) ==
  /\ ~ (ToSet(item) \subseteq Opened)
  /\ Create(item)
  /\ UNCHANGED <<div, layoutLocked, saved, asked, ready, moves>>

\* closeThisContainer removes the div.  Its interval is never cleared.
Close(c) ==
  /\ c \in Opened
  /\ order' = RemoveAt(order, Place(c, order))
  /\ div' = [div EXCEPT ![c] = NewDiv]
  /\ UNCHANGED <<layoutLocked, saved, timed, asked, ready, created, moves>>

Drag(c, x) ==
  /\ c \in Opened /\ div[c].movable
  /\ moves < MaxMoves
  /\ moves' = moves + 1
  /\ div' = [div EXCEPT ![c].rel = x - Flow(c, order, Widths)]
  /\ UNCHANGED <<order, layoutLocked, saved, timed, asked, ready, created>>

Resize(c, w) ==
  /\ c \in Opened /\ div[c].movable
  /\ moves < MaxMoves
  /\ moves' = moves + 1
  /\ div' = [div EXCEPT ![c].size = w]
  /\ UNCHANGED <<order, layoutLocked, saved, timed, asked, ready, created>>

\* Mutant of ToggleLayoutLock: every container is switched over.
ToggleEach ==
  /\ layoutLocked' = ~layoutLocked
  /\ div' = [c \in Id |-> IF c \in Opened
                          THEN [div[c] EXCEPT !.movable = ~div[c].movable] ELSE div[c]]
  /\ UNCHANGED <<order, saved, timed, asked, ready, created, moves>>

\* The containers that are in the page now are enabled or disabled.
ToggleLayoutLock ==
  /\ layoutLocked' = ~layoutLocked
  /\ div' = [c \in Id |-> IF c \in Opened
                          THEN [div[c] EXCEPT !.movable = layoutLocked] ELSE div[c]]
  /\ UNCHANGED <<order, saved, timed, asked, ready, created, moves>>

SaveLayout ==
  /\ saved' = [i \in DOMAIN order |->
                 [id |-> order[i], left |-> Left(order[i]), width |-> Width(order[i])]]
  /\ UNCHANGED <<order, div, layoutLocked, timed, asked, ready, created, moves>>

-----------------------------------------------------------------------------
SavedIds == [i \in DOMAIN saved |-> saved[i].id]

\* Mutant of Applied: the offset is taken for the position in the flow.
AppliedAsIs(i, page) ==
  [div[saved[i].id] EXCEPT !.rel = saved[i].left, !.size = saved[i].width]

\* Entry i is applied to page: the offset while the entries before it have
\* their saved size already and those after it have not, then the size.
Applied(i, page) ==
  LET sized(d) == \E j \in 1..(i - 1) : saved[j].id = d
      w == [d \in Id |-> IF sized(d) THEN saved[Place(d, SavedIds)].width ELSE Width(d)]
  IN [div[saved[i].id] EXCEPT !.rel = saved[i].left - Flow(saved[i].id, page, w),
                              !.size = saved[i].width]

\* Mutant of LoadLayout: the divs are made without their Container.
LoadDivsOnly ==
  /\ saved # <<>>
  /\ order' = Appended(SavedIds)
  /\ created' = created + Len(order') - Len(order)
  /\ created' <= MaxCreated
  /\ div' = [c \in Id |-> IF c \in ToSet(SavedIds)
                          THEN Applied(Place(c, SavedIds), order') ELSE div[c]]
  /\ UNCHANGED <<layoutLocked, saved, timed, asked, ready, moves>>

\* loadLayoutFromJSON goes through the entries in their order; a container that
\* is made for one is appended, so it moves none of those before it.
LoadLayout ==
  /\ saved # <<>>
  /\ Create(SavedIds)
  /\ div' = [c \in Id |-> IF c \in ToSet(SavedIds)
                          THEN Applied(Place(c, SavedIds), order') ELSE div[c]]
  /\ UNCHANGED <<layoutLocked, saved, asked, ready, moves>>

-----------------------------------------------------------------------------
\* setTable: nothing happens if the container is not in the page.
SetTable(c) == [div EXCEPT ![c].filled = @ \/ c \in Opened]

\* The interval of c: a synchronous container is filled, or throws if there is
\* no data, a remote one asks the server.
Tick(c) ==
  /\ c \in timed
  /\ IF c \in Remote THEN asked' = asked \cup {c} /\ UNCHANGED div
     ELSE /\ Source[c] \in ready
          /\ div' = SetTable(c)
          /\ UNCHANGED asked
  /\ UNCHANGED <<order, layoutLocked, saved, timed, ready, created, moves>>

Answer(c) ==
  /\ c \in asked
  /\ asked' = asked \ {c}
  /\ div' = IF Source[c] \in ready THEN SetTable(c) ELSE div
  /\ UNCHANGED <<order, layoutLocked, saved, timed, ready, created, moves>>

\* camData gets the own CAM, which stays until the page is left.
OwnCamComes ==
  /\ ready' = ready \cup {"camData"}
  /\ UNCHANGED <<order, div, layoutLocked, saved, timed, asked, created, moves>>

\* The server has information on DCC or, as after a restart of the LDM, none.
DccInfoChanges ==
  /\ ready' = SymDiff(ready, {"dccInfo"})
  /\ UNCHANGED <<order, div, layoutLocked, saved, timed, asked, created, moves>>

\* The page starts anew; localStorage stays.
Reload ==
  /\ order' = <<>>
  /\ div' = [c \in Id |-> NewDiv]
  /\ layoutLocked' = FALSE
  /\ timed' = {}
  /\ asked' = {}
  /\ ready' = ready \ {"camData"}
  /\ UNCHANGED <<saved, created, moves>>

-----------------------------------------------------------------------------
Next ==
  \/ \E item \in Menu : OpenFromMenu(item)
  \/ \E c \in Id : Close(c) \/ Tick(c) \/ Answer(c)
  \/ \E c \in Id, x \in 0..MaxLeft : Drag(c, x)
  \/ \E c \in Id, w \in Loading..Content : Resize(c, w)
  \/ OwnCamComes \/ DccInfoChanges
  \/ ToggleLayoutLock \/ SaveLayout \/ LoadLayout \/ Reload

\* Intervals fire and the server answers, if only with an error.  Nothing is
\* expected of the user.
Spec ==
  /\ Init /\ [][Next]_vars
  /\ \A c \in Id : WF_vars(Tick(c)) /\ WF_vars(Answer(c))

-----------------------------------------------------------------------------
Div == [rel : Int, size : 0..Content, filled : BOOLEAN, movable : BOOLEAN]
Layout == [id : Id, left : Int, width : Loading..Content]

\* Besides the types: no id is used by two divs, whatever was opened, closed and
\* loaded.  setTable, the close button and the layout find a container by its id.
LayoutTypeOK ==
  /\ order \in Seq(Id) /\ IsInjective(order)
  /\ div \in [Id -> Div]
  /\ layoutLocked \in BOOLEAN
  /\ saved \in Seq(Layout)
  /\ timed \subseteq Id /\ asked \subseteq Remote /\ ready \subseteq {"camData", "dccInfo"}
  /\ created \in Nat /\ moves \in Nat

\* Whatever was opened while the layout was locked, and however often it was
\* locked: in an unlocked layout no container is stuck.
UnlockedAllMovable ==
  ~layoutLocked => \A c \in Opened : div[c].movable

Restored ==
  \A i \in DOMAIN saved : /\ Left(saved[i].id) = saved[i].left
                          /\ Width(saved[i].id) = saved[i].width

InSavedOrder ==
  \A i, j \in DOMAIN saved :
    i < j => Place(saved[i].id, order) < Place(saved[j].id, order)

SavedSizes ==
  \A i \in DOMAIN saved : /\ saved[i].id \in Opened
                          /\ Width(saved[i].id) = saved[i].width

\* loadLayout "loads and applys layout configs peviously saved" (layoutManager.js:76)
\* as far as this goes: a saved layout comes back exactly, on a fresh page and on one where other
\* containers are open, if its containers are in the page in the order in which
\* they were saved, or have their saved sizes already: loading twice is enough.
\* Otherwise a width that is set late moves containers that were placed before.
LoadRestores == [][LoadLayout => (InSavedOrder' \/ SavedSizes => Restored')]_vars

\* A container whose data is there does not stay at "Loading Data...", however
\* it came into the page and however often it was closed before.
EventuallyFilled ==
  \A c \in Id : []<>(c \in Opened /\ Source[c] \in ready => div[c].filled)

=============================================================================
