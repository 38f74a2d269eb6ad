-------------------------- MODULE InsightsWorkspace --------------------------
(***************************************************************************)
(* The dashboard workspace of Insights with live providers                 *)
(* (features/insights/insights-app.tsx, history.ts, client.ts,             *)
(* use-workspace-refresh.ts, gamma/confirmation.tsx): one console edits,   *)
(* saves, opens, creates, duplicates, deletes, moves and imports           *)
(* dashboards while a refresh every five seconds looks for what others     *)
(* wrote, each over requests that are answered in any order.               *)
(*                                                                         *)
(* A step is a JavaScript task with the promise continuations it runs.     *)
(* openRequest is a counter that every navigation increments: an operation *)
(* asks whether it is still the latest.  It is modelled by what the        *)
(* comparison sees: `nav` is the latest navigation, and the other pending  *)
(* operations carry `current`, which a navigation clears.  A revision is   *)
(* the hash of a document, so its content stands for its ETag.             *)
(***************************************************************************)
EXTENDS Integers, Sequences, FiniteSets, SequencesExt

CONSTANTS
    Existing,    \* dashboards of the workspace at the start
    NewIds,      \* identities the console may give to new ones
    MaxBodies,   \* bound: contents, those of the existing ones included
    MaxUser,     \* bound: clicks that start a request or a navigation
    MaxTrouble,  \* bound: lost requests, lost answers, interrupted refreshes
    None

ASSUME WorkspaceAssumption ==
    /\ Existing # {} /\ IsFiniteSet(Existing \cup NewIds) /\ Existing \cap NewIds = {}
    /\ {MaxBodies, MaxUser, MaxTrouble} \subseteq Nat /\ MaxBodies >= 1
    /\ None \notin Existing \cup NewIds

VARIABLES
    server,    \* the store: per identity [body, ver] or None
    doc,       \* the dashboard on the canvas: [id, body]
    past, future,
    saved,     \* the fingerprint the draft is compared with: [id, body] or None
    etags,     \* per identity, the revision a write will be conditional on
    list,      \* the dashboards in the library: [body, ver] or None
    editing,   \* the editor or a panel is open
    remote,    \* the notice about the saved version: [id, removed] or None
    nav,       \* the latest navigation, while it asks or loads
    work,      \* the operation that makes the console busy, or None
    poll,      \* the refresh under way, or None
    shown,     \* history: versions the console showed, read or wrote
    overwrote, \* history: versions its conditional writes replaced
    agreed,    \* history: the draft, or dashboard, the user last agreed to lose
    floor,     \* history: per identity, the version of the console's last write
    clock,     \* history: number of writes the store took
    bodies, used, user, trouble

canvas  == <<doc, past, future, saved, editing>>
pending == <<nav, work, poll>>
history == <<shown, overwrote, agreed, floor, clock>>
budget  == <<bodies, used, user, trouble>>
vars    == <<server, canvas, etags, list, remote, pending, history, budget>>

Ids   == Existing \cup NewIds
Blank == 0                          \* the content of newDashboard()

Dirty == saved # doc
Busy  == work # None
Modal == nav # None /\ nav.phase = "confirm"
Importing == Busy /\ work.kind = "import"

Click == user < MaxUser /\ user' = user + 1

(* history.ts *)
Updated(body) == /\ doc' = [doc EXCEPT !.body = body]
                 /\ past' = Append(past, doc.body) /\ future' = <<>>
Reset(id, body) == doc' = [id |-> id, body |-> body] /\ past' = <<>> /\ future' = <<>>

(* ++openRequest.current *)
Superseded(op) == IF op = None THEN None ELSE [op EXCEPT !.current = FALSE]

(* A refresh that was overtaken runs on to an answer that is discarded; it *)
(* matters only because no other one starts before it ends                 *)
Overtaken == [id |-> None, saved |-> None, listed |-> None, current |-> FALSE]
Discarded(p) == IF p = None THEN None ELSE Overtaken

Bump == work' = Superseded(work) /\ poll' = Discarded(poll)

(* Mutant: a list requested before a write is not recognised as old *)
NotRelisted(p) == p

(* setDashboards gives the list a new identity, which a refresh compares *)
Relisted(p) == Discarded(p)

-----------------------------------------------------------------------------
(* Editing.                                                                *)

Edit ==
    /\ ~Modal /\ bodies < MaxBodies
    /\ bodies' = bodies + 1
    /\ Updated(bodies + 1) /\ editing' = TRUE
    /\ UNCHANGED <<server, saved, etags, list, remote, pending, history, used, user, trouble>>

Undo ==
    /\ ~Modal /\ editing /\ past # <<>>
    /\ doc' = [doc EXCEPT !.body = Last(past)]
    /\ past' = Front(past) /\ future' = <<doc.body>> \o future
    /\ UNCHANGED <<server, saved, editing, etags, list, remote, pending, history, budget>>

Redo ==
    /\ ~Modal /\ editing /\ future # <<>>
    /\ doc' = [doc EXCEPT !.body = Head(future)]
    /\ past' = Append(past, doc.body) /\ future' = Tail(future)
    /\ UNCHANGED <<server, saved, editing, etags, list, remote, pending, history, budget>>

(* "Edit dashboard", the panels, "Preview" and close() *)
ToggleEditing ==
    /\ ~Modal /\ ~Importing
    /\ editing' = ~editing
    /\ UNCHANGED <<server, doc, past, future, saved, etags, list, remote, pending, history, budget>>

-----------------------------------------------------------------------------
(* Writes.                                                                 *)

Held(id) == IF server[id] = None THEN None ELSE server[id].body

(* store.go, preconditions in Put and Delete.  A write without a revision  *)
(* asks for If-None-Match: *, a delete without one is unconditional.       *)
Fits(op) == IF op.kind = "delete" THEN Held(op.id) # None /\ op.etag \in {None, Held(op.id)}
            ELSE Held(op.id) = op.etag

Stored(id, body) == [server EXCEPT ![id] = [body |-> body, ver |-> clock + 1]]

Overwritten(op) == IF op.etag = None THEN overwrote ELSE overwrote \cup {<<op.id, op.etag>>}

(* What a request that is answered leaves when it was refused or lost *)
WorkFails == /\ work' = None
             /\ UNCHANGED <<canvas, etags, list, remote, nav, poll>>

Save ==
    /\ ~Modal /\ ~Busy /\ editing /\ Click
    /\ work' = [kind |-> "save", id |-> doc.id, body |-> doc.body, etag |-> etags[doc.id],
                current |-> TRUE]
    /\ UNCHANGED <<server, canvas, etags, list, remote, nav, poll, history, bodies, used, trouble>>

(* The canvas is left as it is: edits made meanwhile are a new draft *)
FinishSave(op) ==
    /\ IF op.current
       THEN saved' = [id |-> op.id, body |-> op.body] /\ editing' = FALSE
       ELSE UNCHANGED <<saved, editing>>
    /\ UNCHANGED <<doc, past, future>>

SaveAnswered ==
    /\ Busy /\ work.kind = "save" /\ Fits(work)
    /\ server' = Stored(work.id, work.body) /\ clock' = clock + 1
    /\ etags' = [etags EXCEPT ![work.id] = work.body]
    /\ list' = [list EXCEPT ![work.id] = [body |-> work.body, ver |-> clock + 1]]
    /\ floor' = [floor EXCEPT ![work.id] = clock + 1]
    /\ shown' = shown \cup {<<work.id, work.body>>}
    /\ overwrote' = Overwritten(work)
    /\ FinishSave(work)
    /\ poll' = Relisted(poll) /\ work' = None
    /\ UNCHANGED <<remote, nav, agreed, budget>>

(* The store refuses, or the request is lost *)
WriteRefused ==
    /\ Busy /\ work.kind \in {"save", "delete"}
    /\ IF Fits(work) THEN trouble < MaxTrouble /\ trouble' = trouble + 1 ELSE UNCHANGED trouble
    /\ WorkFails
    /\ UNCHANGED <<server, history, bodies, used, user>>

(* The store takes the write and the answer is lost *)
AnswerLost ==
    /\ Busy /\ work.kind \in {"save", "delete"} /\ Fits(work)
    /\ trouble < MaxTrouble /\ trouble' = trouble + 1
    /\ server' = IF work.kind = "save" THEN Stored(work.id, work.body)
                 ELSE [server EXCEPT ![work.id] = None]
    /\ clock' = clock + 1
    /\ overwrote' = Overwritten(work)
    /\ shown' = IF work.kind = "save" THEN shown \cup {<<work.id, work.body>>} ELSE shown
    /\ WorkFails
    /\ UNCHANGED <<agreed, floor, bodies, used, user>>

-----------------------------------------------------------------------------
(* Navigation.  A dialog is modal: while it is open only the browser's     *)
(* Back button reaches the page, and a second question answers itself no.  *)

Ask(kind, id) == [kind |-> kind, phase |-> "confirm", id |-> id, before |-> doc]

OpenDashboard(id) ==
    /\ ~Busy /\ (list[id] # None \/ id = doc.id) /\ Click /\ Bump
    /\ nav' = IF id = doc.id THEN None
              ELSE IF ~Dirty THEN [Ask("open", id) EXCEPT !.phase = "load"]
              ELSE IF Modal THEN None ELSE Ask("open", id)
    /\ UNCHANGED <<server, canvas, etags, list, remote, history, bodies, used, trouble>>

(* Mutant: an edit made while the destination loads is not looked for *)
UnchangedForgotten(before) == TRUE

(* beforeLoad: the draft is still the one the user was asked about *)
UnchangedSince(before) == doc = before

OpenAnswered ==
    /\ nav # None /\ nav.kind = "open" /\ nav.phase = "load"
    /\ nav' = None
    /\ IF Held(nav.id) # None /\ UnchangedSince(nav.before)
       THEN /\ etags' = [etags EXCEPT ![nav.id] = Held(nav.id)]
            /\ Reset(nav.id, Held(nav.id))
            /\ saved' = [id |-> nav.id, body |-> Held(nav.id)] /\ editing' = FALSE
            /\ shown' = shown \cup {<<nav.id, Held(nav.id)>>}
       ELSE UNCHANGED <<canvas, etags, shown>>
    /\ UNCHANGED <<server, list, remote, work, poll, overwrote, agreed, floor, clock, budget>>

OpenFails ==
    /\ nav # None /\ nav.kind = "open" /\ nav.phase = "load"
    /\ trouble < MaxTrouble /\ trouble' = trouble + 1
    /\ nav' = None
    /\ UNCHANGED <<server, canvas, etags, list, remote, work, poll, history, bodies, used, user>>

Fresh == NewIds \ used

(* The canvas shows a dashboard that is not saved anywhere *)
StartUnsaved(id, body) == /\ Reset(id, body) /\ saved' = None /\ editing' = TRUE
                          /\ used' = used \cup {id}

CreateDashboard ==
    /\ ~Modal /\ ~Importing /\ Click /\ Fresh # {}
    /\ Bump
    /\ IF Dirty THEN nav' = Ask("create", doc.id) /\ UNCHANGED <<canvas, used>>
       ELSE \E id \in Fresh : nav' = None /\ StartUnsaved(id, Blank)
    /\ UNCHANGED <<server, etags, list, remote, history, bodies, trouble>>

DuplicateDashboard ==
    /\ ~Modal /\ ~Importing /\ Click
    /\ Bump /\ nav' = None
    /\ \E id \in Fresh : StartUnsaved(id, doc.body)
    /\ UNCHANGED <<server, etags, list, remote, history, bodies, trouble>>

DeleteDashboard ==
    /\ ~Modal /\ ~Busy /\ Click /\ Fresh # {}
    /\ Bump /\ nav' = Ask("delete", doc.id)
    /\ UNCHANGED <<server, canvas, etags, list, remote, history, bodies, used, trouble>>

ReloadRemoteDashboard ==
    /\ ~Modal /\ ~Busy /\ remote = [id |-> doc.id, removed |-> FALSE] /\ Click
    /\ poll' = Discarded(poll)
    /\ IF Dirty \/ editing THEN nav' = Ask("reload", doc.id) /\ UNCHANGED work
       ELSE /\ nav' = None
            /\ work' = [kind |-> "reload", id |-> doc.id, before |-> doc, current |-> TRUE]
    /\ UNCHANGED <<server, canvas, etags, list, remote, history, bodies, used, trouble>>

Cancel ==
    /\ Modal /\ nav' = None
    /\ UNCHANGED <<server, canvas, etags, list, remote, work, poll, history, budget>>

Confirm ==
    /\ Modal
    /\ agreed' = IF nav.kind = "delete" THEN <<nav.id, None>> ELSE <<doc.id, doc.body>>
    /\ CASE nav.kind = "open" ->
               nav' = [nav EXCEPT !.phase = "load"] /\ UNCHANGED <<canvas, work, used>>
         [] nav.kind = "create" ->
               \E id \in Fresh : nav' = None /\ StartUnsaved(id, Blank) /\ UNCHANGED work
         [] nav.kind = "reload" ->
               /\ work' = [kind |-> "reload", id |-> nav.id, before |-> nav.before, current |-> TRUE]
               /\ nav' = None /\ UNCHANGED <<canvas, used>>
         [] nav.kind = "delete" ->
               /\ work' = [kind |-> "delete", id |-> nav.id, etag |-> etags[nav.id], current |-> TRUE]
               /\ nav' = None /\ UNCHANGED <<canvas, used>>
    /\ UNCHANGED <<server, etags, list, remote, poll, shown, overwrote, floor, clock, bodies, user, trouble>>

DeleteAnswered ==
    /\ Busy /\ work.kind = "delete" /\ Fits(work)
    /\ server' = [server EXCEPT ![work.id] = None] /\ clock' = clock + 1
    /\ overwrote' = Overwritten(work)
    /\ etags' = [etags EXCEPT ![work.id] = None]
    /\ list' = [list EXCEPT ![work.id] = None]
    /\ floor' = [floor EXCEPT ![work.id] = clock + 1]
    /\ IF work.current
       THEN \E id \in Fresh : StartUnsaved(id, Blank) /\ nav' = None
       ELSE UNCHANGED <<canvas, used, nav>>
    /\ poll' = Relisted(poll) /\ work' = None
    /\ UNCHANGED <<remote, shown, agreed, bodies, user, trouble>>

ReloadAnswered ==
    /\ Busy /\ work.kind = "reload"
    /\ work' = None
    /\ IF work.current /\ Held(work.id) # None /\ doc.id = work.id /\ UnchangedSince(work.before)
       THEN /\ etags' = [etags EXCEPT ![work.id] = Held(work.id)]
            /\ Reset(work.id, Held(work.id))
            /\ saved' = [id |-> work.id, body |-> Held(work.id)] /\ editing' = FALSE
            /\ list' = [list EXCEPT ![work.id] = server[work.id]]
            /\ shown' = shown \cup {<<work.id, Held(work.id)>>}
            /\ remote' = None /\ poll' = Relisted(poll)
       ELSE UNCHANGED <<canvas, etags, list, shown, remote, poll>>
    /\ UNCHANGED <<server, nav, overwrote, agreed, floor, clock, budget>>

-----------------------------------------------------------------------------
(* Moving another dashboard to a folder: read it, then write it back.      *)

MoveDashboard(id) ==
    /\ ~Modal /\ ~Busy /\ id # doc.id /\ list[id] # None /\ Click
    /\ bodies < MaxBodies /\ bodies' = bodies + 1
    /\ work' = [kind |-> "move", id |-> id, body |-> bodies', etag |-> None, current |-> TRUE]
    /\ UNCHANGED <<server, canvas, etags, list, remote, nav, poll, history, used, trouble>>

MoveRead ==
    /\ Busy /\ work.kind = "move" /\ work.etag = None
    /\ work' = IF Held(work.id) = None THEN None ELSE [work EXCEPT !.etag = Held(work.id)]
    /\ shown' = IF Held(work.id) = None THEN shown ELSE shown \cup {<<work.id, Held(work.id)>>}
    /\ UNCHANGED <<server, canvas, etags, list, remote, nav, poll, overwrote, agreed, floor, clock, budget>>

MoveAnswered ==
    /\ Busy /\ work.kind = "move" /\ work.etag # None
    /\ work' = None
    /\ IF Held(work.id) = work.etag
       THEN /\ server' = Stored(work.id, work.body) /\ clock' = clock + 1
            /\ etags' = [etags EXCEPT ![work.id] = work.body]
            /\ list' = [list EXCEPT ![work.id] = [body |-> work.body, ver |-> clock + 1]]
            /\ floor' = [floor EXCEPT ![work.id] = clock + 1]
            /\ shown' = shown \cup {<<work.id, work.body>>}
            /\ overwrote' = Overwritten(work)
            /\ poll' = Relisted(poll)
       ELSE UNCHANGED <<server, etags, list, poll, shown, overwrote, floor, clock>>
    /\ UNCHANGED <<canvas, remote, nav, agreed, budget>>

-----------------------------------------------------------------------------
(* An import that replaces a saved dashboard (BundleImport models the      *)
(* importer itself; here it writes the version the review approved).       *)

ImportBundle(id) ==
    /\ ~Modal /\ ~Busy /\ Click
    /\ Held(id) # None /\ ~(Dirty /\ id = doc.id)
    /\ bodies < MaxBodies /\ bodies' = bodies + 1
    /\ nav' = None /\ poll' = Discarded(poll)
    /\ work' = [kind |-> "import", id |-> id, body |-> bodies', before |-> doc, current |-> TRUE]
    /\ UNCHANGED <<server, canvas, etags, list, remote, history, used, trouble>>

ImportSaved ==
    /\ Importing /\ Held(work.id) # None
    /\ clock' = clock + 1
    /\ server' = Stored(work.id, work.body)
    /\ list' = [list EXCEPT ![work.id] = [body |-> work.body, ver |-> clock + 1]]
    /\ floor' = [floor EXCEPT ![work.id] = clock + 1]
    /\ LET edited == work.id = work.before.id /\ ~UnchangedSince(work.before)
       IN /\ IF edited THEN UNCHANGED <<etags, shown>>
             ELSE /\ etags' = [etags EXCEPT ![work.id] = work.body]
                  /\ shown' = shown \cup {<<work.id, work.body>>}
          /\ IF work.id = work.before.id /\ ~edited
             THEN Reset(work.id, work.body) /\ saved' = [id |-> work.id, body |-> work.body] /\ UNCHANGED editing
             ELSE UNCHANGED canvas
    /\ work' = None /\ poll' = Relisted(poll)
    /\ UNCHANGED <<remote, nav, overwrote, agreed, budget>>

ImportFails ==
    /\ Importing
    /\ IF Held(work.id) # None THEN trouble < MaxTrouble /\ trouble' = trouble + 1 ELSE UNCHANGED trouble
    /\ WorkFails
    /\ UNCHANGED <<server, history, bodies, used, user>>

-----------------------------------------------------------------------------
(* The refresh: list, then the active dashboard, then decide.              *)

(* Mutant: no refresh while there is a draft *)
PollIdle ==
    /\ poll = None /\ ~Busy /\ ~Dirty
    /\ poll' = [id |-> doc.id, saved |-> saved, listed |-> None, current |-> TRUE]
    /\ UNCHANGED <<server, canvas, etags, list, remote, nav, work, history, budget>>

(* Every five seconds while the tab is visible and nothing is being saved *)
PollStart ==
    /\ poll = None /\ ~Busy
    /\ poll' = [id |-> doc.id, saved |-> saved, listed |-> None, current |-> TRUE]
    /\ UNCHANGED <<server, canvas, etags, list, remote, nav, work, history, budget>>

PollListed ==
    /\ poll # None /\ poll.current /\ poll.listed = None
    /\ poll' = [poll EXCEPT !.listed = server]
    /\ UNCHANGED <<server, canvas, etags, list, remote, nav, work, history, budget>>

(* A list requested before a save, an import or a navigation is discarded *)
PollValid == poll.current /\ ~Busy /\ saved = poll.saved

(* Mutant: the revision is adopted even when the draft stays *)
AdoptRevision(active) ==
    /\ etags' = [etags EXCEPT ![poll.id] = active.body]
    /\ IF Dirty \/ editing
       THEN remote' = [id |-> poll.id, removed |-> FALSE] /\ UNCHANGED <<canvas, shown>>
       ELSE /\ saved' = [id |-> poll.id, body |-> active.body] /\ remote' = None
            /\ IF saved' # saved THEN Reset(poll.id, active.body)
               ELSE UNCHANGED <<doc, past, future>>
            /\ shown' = shown \cup {<<poll.id, active.body>>}
            /\ UNCHANGED editing

(* The saved version is not the one on the canvas: a draft or an open      *)
(* editor gets a notice, an untouched canvas follows                       *)
Adopt(active) ==
    IF Dirty \/ editing
    THEN remote' = [id |-> poll.id, removed |-> FALSE] /\ UNCHANGED <<canvas, etags, shown>>
    ELSE /\ etags' = [etags EXCEPT ![poll.id] = active.body]
         /\ saved' = [id |-> poll.id, body |-> active.body] /\ remote' = None
         /\ IF saved' # saved THEN Reset(poll.id, active.body)
            ELSE UNCHANGED <<doc, past, future>>
         /\ shown' = shown \cup {<<poll.id, active.body>>}
         /\ UNCHANGED editing

PollAnswered ==
    /\ poll # None /\ (poll.current => poll.listed # None)
    /\ poll' = None
    /\ LET listed == poll.listed[poll.id] # None
           active == server[poll.id]
       IN IF PollValid /\ (listed => active # None)
          THEN /\ list' = IF listed THEN [poll.listed EXCEPT ![poll.id] = active] ELSE poll.listed
               /\ IF listed /\ ([id |-> poll.id, body |-> active.body] # saved
                                \/ active.body # etags[poll.id])
                  THEN Adopt(active)
                  ELSE /\ remote' = IF ~listed /\ etags[doc.id] # None
                                    THEN [id |-> doc.id, removed |-> TRUE] ELSE None
                       /\ UNCHANGED <<canvas, etags, shown>>
          ELSE UNCHANGED <<canvas, etags, list, remote, shown>>
    /\ UNCHANGED <<server, nav, work, overwrote, agreed, floor, clock, budget>>

(* The tab is hidden, or a request of the refresh fails *)
PollStops ==
    /\ poll # None /\ trouble < MaxTrouble /\ trouble' = trouble + 1
    /\ poll' = None
    /\ UNCHANGED <<server, canvas, etags, list, remote, nav, work, history, bodies, used, user>>

-----------------------------------------------------------------------------
(* External: other writers.                                                *)

OthersWrite(id) ==
    /\ server[id] # None /\ bodies < MaxBodies
    /\ bodies' = bodies + 1 /\ clock' = clock + 1
    /\ server' = Stored(id, bodies')
    /\ UNCHANGED <<canvas, etags, list, remote, pending, shown, overwrote, agreed, floor, used, user, trouble>>

OthersDelete(id) ==
    /\ server[id] # None /\ trouble < MaxTrouble /\ trouble' = trouble + 1
    /\ server' = [server EXCEPT ![id] = None] /\ clock' = clock + 1
    /\ UNCHANGED <<canvas, etags, list, remote, pending, shown, overwrote, agreed, floor, bodies, used, user>>

First == CHOOSE id \in Existing : TRUE

Init ==
    /\ server = [i \in Ids |-> IF i \in Existing THEN [body |-> 1, ver |-> 1] ELSE None]
    /\ doc = [id |-> First, body |-> 1] /\ past = <<>> /\ future = <<>>
    /\ saved = doc /\ editing = FALSE /\ remote = None
    /\ etags = [i \in Ids |-> IF i = First THEN 1 ELSE None]
    /\ list = server
    /\ nav = None /\ work = None /\ poll = None
    /\ shown = {<<First, 1>>} /\ overwrote = {} /\ agreed = None
    /\ floor = [i \in Ids |-> 0] /\ clock = 1
    /\ bodies = 1 /\ used = {} /\ user = 0 /\ trouble = 0

Answers == \/ SaveAnswered \/ WriteRefused \/ DeleteAnswered \/ ReloadAnswered
           \/ MoveRead \/ MoveAnswered \/ ImportSaved \/ ImportFails

Refresh == PollStart \/ PollListed \/ PollAnswered

Next ==
    \/ Edit \/ Undo \/ Redo \/ ToggleEditing
    \/ Save \/ CreateDashboard \/ DuplicateDashboard \/ DeleteDashboard \/ ReloadRemoteDashboard
    \/ \E id \in Ids : OpenDashboard(id) \/ MoveDashboard(id) \/ ImportBundle(id)
    \/ Confirm \/ Cancel
    \/ Answers \/ AnswerLost \/ OpenAnswered \/ OpenFails
    \/ Refresh \/ PollStops
    \/ \E id \in Ids : OthersWrite(id) \/ OthersDelete(id)

Spec == Init /\ [][Next]_vars

(* The timer keeps firing and the server keeps answering *)
FairSpec == Spec /\ WF_vars(PollStart) /\ WF_vars(PollListed) /\ WF_vars(PollAnswered)
                 /\ WF_vars(Answers)

-----------------------------------------------------------------------------
Document == [id : Ids, body : 0 .. MaxBodies]

ASSUME NoneAssumption == None \notin Document

(* Types of the canvas, of the library and of what is pending              *)
(* (InsightsApp's state and refs): what is shown is a document.            *)
TypeOK ==
    /\ doc \in Document /\ saved \in Document \cup {None}
    /\ etags \in [Ids -> (0 .. MaxBodies) \cup {None}]
    /\ \A i \in Ids : list[i] = None \/ list[i].body \in 0 .. MaxBodies
    /\ past \in Seq(0 .. MaxBodies) /\ future \in Seq(0 .. MaxBodies)
    /\ nav = None \/ (nav.kind \in {"open", "create", "delete", "reload"}
                      /\ nav.phase \in {"confirm", "load"})
    /\ work = None \/ work.kind \in {"save", "delete", "reload", "move", "import"}
    /\ poll \in {None, Overtaken} \/ poll.id \in Ids
    /\ used \subseteq NewIds /\ user \in 0 .. MaxUser /\ trouble \in 0 .. MaxTrouble

(* A save, a move or a delete that carries a revision replaces only a      *)
(* version this console showed, read for the change, or wrote itself:      *)
(* never one it merely heard of while a draft was open.                    *)
OverwritesShown == overwrote \subseteq shown

(* A draft that is saved nowhere leaves the editor and its undo history    *)
(* only when the user edits on, agreed to discard it, or agreed to delete  *)
(* its dashboard: no answer that arrives late takes it away.  A consent    *)
(* holds for that draft until another is given.                            *)
DraftKept ==
    [][Dirty /\ doc.body # Blank /\ Held(doc.id) # doc.body /\ <<doc.id, doc.body>> \notin shown
          => \/ doc.body \in {doc'.body} \cup Range(past') \cup Range(future')
             \/ agreed' \in {<<doc.id, doc.body>>, <<doc.id, None>>}]_vars

(* What the console wrote or deleted never comes back in an older version  *)
(* through a list that was requested earlier.                              *)
OwnWritesStay == \A i \in Ids : list[i] # None => list[i].ver >= floor[i]

(* A version somebody else saved over the dashboard on the canvas does not *)
(* stay unnoticed: the canvas follows, or the notice says so.              *)
ChangeNoticed ==
    \A id \in Ids :
        (doc.id = id /\ Held(id) \notin {None, etags[id]})
            ~> (doc.id # id \/ Held(id) \in {None, etags[id]}
                \/ (remote # None /\ remote.id = id))
=============================================================================
