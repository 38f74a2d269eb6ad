----------------------- MODULE InsightsWorkspaceProofs -----------------------
(***************************************************************************)
(* The dashboard workspace, for any number of dashboards, contents, clicks *)
(* and failures: what a write replaces was shown, and what the console     *)
(* wrote does not come back in an older version.                           *)
(*                                                                         *)
(* Neither is inductive.  A write carries its revision from the click to   *)
(* the answer, so the revisions that wait in etags and in the operation    *)
(* under way must be among the versions shown (RevisionInv); a refresh     *)
(* carries a list from its first answer to its second, so a list that is   *)
(* still going to be believed must be newer than the console's writes      *)
(* (FloorInv).  Both rest on the types of what is pending (TypeInv).       *)
(***************************************************************************)
EXTENDS InsightsWorkspace, TLAPS

Bodies    == 0 .. MaxBodies
Revision  == Bodies \cup {None}
Version   == [body : Bodies, ver : Nat]
Shelf     == [Ids -> Version \cup {None}]

WriteOp   == [kind : {"save", "move"}, id : Ids, body : Bodies, etag : Revision, current : BOOLEAN]
DeleteOp  == [kind : {"delete"}, id : Ids, etag : Revision, current : BOOLEAN]
ReloadOp  == [kind : {"reload"}, id : Ids, before : Document, current : BOOLEAN]
ImportOp  == [kind : {"import"}, id : Ids, body : Bodies, before : Document, current : BOOLEAN]
Operation == WriteOp \cup DeleteOp \cup ReloadOp \cup ImportOp

Navigation == [kind : {"open", "create", "delete", "reload"}, phase : {"confirm", "load"},
               id : Ids, before : Document]
Refreshing == [id : Ids, saved : Document \cup {None}, listed : Shelf \cup {None}, current : {TRUE}]

CanvasTyped == /\ doc \in Document /\ saved \in Document \cup {None}
               /\ past \in Seq(Bodies) /\ future \in Seq(Bodies)

TypeInv ==
    /\ server \in Shelf /\ list \in Shelf
    /\ CanvasTyped
    /\ etags \in [Ids -> Revision]
    /\ nav \in Navigation \cup {None}
    /\ work \in Operation \cup {None}
    /\ poll \in Refreshing \cup {None, Overtaken}
    /\ floor \in [Ids -> Nat] /\ clock \in Nat
    /\ bodies \in Bodies /\ used \subseteq NewIds
    /\ user \in 0 .. MaxUser /\ trouble \in 0 .. MaxTrouble

(* Every revision a write may carry belongs to a version that was shown *)
RevisionInv ==
    /\ OverwritesShown
    /\ \A i \in Ids : etags[i] # None => <<i, etags[i]>> \in shown
    /\ work # None /\ work.kind \in {"save", "move", "delete"} /\ work.etag # None
          => <<work.id, work.etag>> \in shown

(* What the store, the library and a refresh still to be believed hold is  *)
(* no older than the console's last write                                  *)
NotOlder(shelf) == \A i \in Ids : shelf[i] # None => floor[i] <= shelf[i].ver

FloorInv ==
    /\ \A i \in Ids : floor[i] <= clock
    /\ NotOlder(server) /\ NotOlder(list)
    /\ poll # None /\ poll.current /\ poll.listed # None => NotOlder(poll.listed)

(* A draft the user may be made to leave: it is on record, or the user     *)
(* agreed to lose it                                                       *)
Seen(d)    == <<d.id, d.body>> \in shown
Yielded(d) == Seen(d) \/ agreed = <<d.id, d.body>>

(* What is saved was shown; what a question is about stands still while it *)
(* is asked; what will replace the canvas was asked for                    *)
QuestionInv ==
    Modal => /\ work # None => ~work.current /\ nav.kind = "create"
             /\ nav.kind \in {"open", "reload"} => nav.before = doc /\ (Dirty \/ editing)
             /\ nav.kind = "delete" => /\ nav.id = doc.id
                                       /\ poll # None /\ poll.current => poll.id = doc.id
ReplacingInv ==
    /\ nav # None /\ nav.phase = "load" => Yielded(nav.before)
    /\ work # None /\ work.kind = "reload" /\ work.current => Yielded(work.before) /\ nav = None
    /\ work # None /\ work.kind = "delete" /\ work.current
          => agreed = <<work.id, None>> /\ doc.id = work.id /\ nav = None
    /\ work # None /\ work.kind = "import" /\ work.id = work.before.id => Seen(work.before)
DraftInv ==
    /\ saved # None => Seen(saved)
    /\ QuestionInv /\ ReplacingInv

Inv == TypeInv /\ RevisionInv /\ FloorInv /\ DraftInv

-----------------------------------------------------------------------------
(* What the provers need to know of the records.                           *)

(* A document has an identity and a content *)
LEMMA DocumentFields == \A d \in Document : d.id \in Ids /\ d.body \in Bodies
  BY DEF Document, Bodies

(* Any identity and content make a document *)
LEMMA NewDocument == \A i \in Ids, b \in Bodies : [id |-> i, body |-> b] \in Document
  BY DEF Document, Bodies

(* An edit keeps the identity *)
LEMMA EditedDocument ==
    \A d \in Document, b \in Bodies :
        [d EXCEPT !.body = b] \in Document /\ [d EXCEPT !.body = b].id = d.id
  BY DEF Document, Bodies

(* What an operation carries depends on its kind *)
LEMMA OperationFields ==
    \A op \in Operation :
        /\ op.id \in Ids /\ op.current \in BOOLEAN
        /\ op.kind \in {"save", "move", "delete", "reload", "import"}
        /\ op.kind \in {"save", "move"} => op \in WriteOp
        /\ op.kind \in {"save", "move", "import"} => op.body \in Bodies
        /\ op.kind \in {"save", "move", "delete"} => op.etag \in Revision
        /\ op.kind \in {"reload", "import"} => op.before \in Document
  BY DEF Operation, WriteOp, DeleteOp, ReloadOp, ImportOp

(* A navigation that supersedes an operation leaves all but its currency *)
LEMMA SupersededOperation ==
    \A op \in Operation \cup {None} :
        /\ Superseded(op) \in Operation \cup {None}
        /\ op # None => /\ Superseded(op).kind = op.kind /\ Superseded(op).id = op.id
                        /\ Superseded(op).current = FALSE
                        /\ op.kind = "import" => Superseded(op).before = op.before
                        /\ op.kind \in {"save", "move", "delete"} => Superseded(op).etag = op.etag
        /\ op = None => Superseded(op) = None
<1> SUFFICES ASSUME NEW op \in Operation, op # None
             PROVE  /\ [op EXCEPT !.current = FALSE] \in Operation
                    /\ [op EXCEPT !.current = FALSE].kind = op.kind
                    /\ [op EXCEPT !.current = FALSE].id = op.id
                    /\ [op EXCEPT !.current = FALSE].current = FALSE
                    /\ op.kind = "import" => [op EXCEPT !.current = FALSE].before = op.before
                    /\ op.kind \in {"save", "move", "delete"}
                          => [op EXCEPT !.current = FALSE].etag = op.etag
  BY DEF Superseded
<1>1. CASE op \in WriteOp
  BY <1>1 DEF Operation, WriteOp
<1>2. CASE op \in DeleteOp
  BY <1>2 DEF Operation, DeleteOp
<1>3. CASE op \in ReloadOp
  BY <1>3 DEF Operation, ReloadOp
<1>4. CASE op \in ImportOp
  BY <1>4 DEF Operation, ImportOp
<1>. QED
  BY <1>1, <1>2, <1>3, <1>4 DEF Operation

(* A move learns its revision from the read *)
LEMMA MovingOperation ==
    \A op \in WriteOp, e \in Revision :
        /\ [op EXCEPT !.etag = e] \in Operation
        /\ [op EXCEPT !.etag = e].kind = op.kind
        /\ [op EXCEPT !.etag = e].id = op.id
        /\ [op EXCEPT !.etag = e].etag = e
        /\ [op EXCEPT !.etag = e].current = op.current
  BY DEF Operation, WriteOp

(* The four ways to begin an operation *)
LEMMA NewWrite ==
    ASSUME NEW i \in Ids, NEW b \in Bodies, NEW e \in Revision, NEW k \in {"save", "move"}
    PROVE  [kind |-> k, id |-> i, body |-> b, etag |-> e, current |-> TRUE] \in Operation
  BY DEF Operation, WriteOp

LEMMA NewDelete ==
    ASSUME NEW i \in Ids, NEW e \in Revision
    PROVE  [kind |-> "delete", id |-> i, etag |-> e, current |-> TRUE] \in Operation
  BY DEF Operation, DeleteOp

LEMMA NewReload ==
    ASSUME NEW i \in Ids, NEW d \in Document
    PROVE  [kind |-> "reload", id |-> i, before |-> d, current |-> TRUE] \in Operation
  BY DEF Operation, ReloadOp

LEMMA NewImport ==
    ASSUME NEW i \in Ids, NEW b \in Bodies, NEW d \in Document
    PROVE  [kind |-> "import", id |-> i, body |-> b, before |-> d, current |-> TRUE] \in Operation
  BY DEF Operation, ImportOp

(* A navigation knows where it goes and what it leaves *)
LEMMA NavigationFields ==
    \A n \in Navigation : /\ n.id \in Ids /\ n.before \in Document
                           /\ [n EXCEPT !.phase = "load"] \in Navigation
  BY DEF Navigation

(* A question is about a dashboard *)
LEMMA NewNavigation ==
    ASSUME doc \in Document, NEW i \in Ids, NEW k \in {"open", "create", "delete", "reload"}
    PROVE  Ask(k, i) \in Navigation
  BY DEF Navigation, Ask

(* A refresh stays one when its list arrives *)
LEMMA RefreshingFields ==
    \A p \in Refreshing :
        /\ p.id \in Ids /\ p.current = TRUE /\ p.listed \in Shelf \cup {None}
        /\ \A s \in Shelf : /\ [p EXCEPT !.listed = s] \in Refreshing
                            /\ [p EXCEPT !.listed = s].listed = s
  BY DEF Refreshing

(* One place of the store or of the library changes *)
LEMMA ShelfUpdate ==
    ASSUME NEW s \in Shelf, NEW i \in Ids, NEW v \in Version \cup {None}
    PROVE  /\ [s EXCEPT ![i] = v] \in Shelf
           /\ \A j \in Ids : [s EXCEPT ![i] = v][j] = IF j = i THEN v ELSE s[j]
  BY DEF Shelf

(* What is on a shelf is a version *)
LEMMA ShelfFields ==
    \A s \in Shelf, i \in Ids :
        s[i] # None => s[i] \in Version /\ s[i].body \in Bodies /\ s[i].ver \in Nat
  BY DEF Version, Shelf

(* Any content and number make a version *)
LEMMA NewVersion == \A b \in Bodies, n \in Nat : [body |-> b, ver |-> n] \in Version
  BY DEF Version

(* What the store holds of an identity is the content of one of its versions *)
LEMMA HeldFields ==
    ASSUME server \in Shelf, NEW i \in Ids
    PROVE  /\ Held(i) \in Revision
           /\ Held(i) # None => /\ Held(i) \in Bodies /\ server[i] # None
                               /\ server[i] \in Version /\ server[i].body = Held(i)
  BY ShelfFields DEF Held, Revision

(* The store takes a write: a new version, the newest *)
LEMMA StoredFields ==
    ASSUME server \in Shelf, clock \in Nat, NEW i \in Ids, NEW b \in Bodies
    PROVE  /\ [body |-> b, ver |-> clock + 1] \in Version
           /\ Stored(i, b) \in Shelf
           /\ \A j \in Ids : Stored(i, b)[j] = IF j = i THEN [body |-> b, ver |-> clock + 1] ELSE server[j]
<1>1. [body |-> b, ver |-> clock + 1] \in Version
  BY NewVersion
<1>. QED
  BY <1>1, ShelfUpdate DEF Stored

(* history.ts: a reset leaves one document and no history *)
LEMMA ResetTypes ==
    ASSUME NEW i \in Ids, NEW b \in Bodies, Reset(i, b)
    PROVE  doc' \in Document /\ past' \in Seq(Bodies) /\ future' \in Seq(Bodies)
  BY NewDocument DEF Reset

(* A dashboard that is saved nowhere takes a fresh identity *)
LEMMA StartUnsavedTypes ==
    ASSUME used \subseteq NewIds, NEW i \in Fresh, NEW b \in Bodies, StartUnsaved(i, b)
    PROVE  /\ doc' \in Document /\ past' \in Seq(Bodies) /\ future' \in Seq(Bodies)
           /\ saved' = None /\ used' \subseteq NewIds
<1>1. i \in Ids /\ i \in NewIds
  BY DEF Fresh, Ids
<1>2. Reset(i, b)
  BY DEF StartUnsaved
<1>. QED
  BY <1>1, <1>2, ResetTypes DEF StartUnsaved

(* The next content is one *)
LEMMA NextBody == \A n \in Bodies : n < MaxBodies => n + 1 \in Bodies
  BY WorkspaceAssumption DEF Bodies

(* So is the content of a new dashboard *)
LEMMA BlankBody == Blank \in Bodies
  BY WorkspaceAssumption DEF Bodies, Blank

(* Undo and redo take contents from the history *)
LEMMA UndoTypes == \A s \in Seq(Bodies) : s # <<>> => Last(s) \in Bodies /\ Front(s) \in Seq(Bodies)
  BY DEF Last, Front

LEMMA RedoTypes == \A s \in Seq(Bodies) : s # <<>> => Head(s) \in Bodies /\ Tail(s) \in Seq(Bodies)
  OBVIOUS

(* Every step keeps the types of what is shown and of what is pending *)
LEMMA TypeStep == TypeInv /\ [Next]_vars => TypeInv'
<1> SUFFICES ASSUME TypeInv, [Next]_vars PROVE TypeInv'
  OBVIOUS
<1> USE WorkspaceAssumption DEF TypeInv, CanvasTyped, Revision, vars, canvas, pending, history,
   budget
<1>1. CASE Edit
  <2>1. doc' \in Document
    BY <1>1, NextBody, EditedDocument DEF Edit, Updated
  <2>2. past' \in Seq(Bodies) /\ bodies' \in Bodies
    BY <1>1, NextBody, DocumentFields DEF Edit, Updated
  <2>. QED
    BY <1>1, <2>1, <2>2 DEF Edit, Updated
<1>2. CASE Undo
  <2>1. doc' \in Document
    BY <1>2, UndoTypes, EditedDocument DEF Undo
  <2>2. past' \in Seq(Bodies) /\ future' \in Seq(Bodies)
    BY <1>2, UndoTypes, DocumentFields DEF Undo
  <2>. QED
    BY <1>2, <2>1, <2>2 DEF Undo
<1>3. CASE Redo
  <2>1. doc' \in Document
    BY <1>3, RedoTypes, EditedDocument DEF Redo
  <2>2. past' \in Seq(Bodies) /\ future' \in Seq(Bodies)
    BY <1>3, RedoTypes, DocumentFields DEF Redo
  <2>. QED
    BY <1>3, <2>1, <2>2 DEF Redo
<1>4. CASE ToggleEditing
  BY <1>4 DEF ToggleEditing
<1>5. CASE Save
  <2>1. work' \in Operation
    BY <1>5, DocumentFields, NewWrite DEF Save
  <2>. QED
    BY <1>5, <2>1 DEF Save, Click
<1>6. CASE CreateDashboard
  <2>1. work' \in Operation \cup {None} /\ poll' \in {None, Overtaken}
    BY <1>6, SupersededOperation DEF CreateDashboard, Bump, Discarded
  <2>2. nav' \in Navigation \cup {None}
    BY <1>6, DocumentFields, NewNavigation DEF CreateDashboard
  <2>3. CanvasTyped' /\ used' \subseteq NewIds
    BY <1>6, StartUnsavedTypes, BlankBody DEF CreateDashboard
  <2>. QED
    BY <1>6, <2>1, <2>2, <2>3 DEF CreateDashboard, Click
<1>7. CASE DuplicateDashboard
  <2>1. work' \in Operation \cup {None} /\ poll' \in {None, Overtaken}
    BY <1>7, SupersededOperation DEF DuplicateDashboard, Bump, Discarded
  <2>2. CanvasTyped' /\ used' \subseteq NewIds
    BY <1>7, StartUnsavedTypes, DocumentFields DEF DuplicateDashboard
  <2>. QED
    BY <1>7, <2>1, <2>2 DEF DuplicateDashboard, Click
<1>8. CASE DeleteDashboard
  <2>1. work' \in Operation \cup {None} /\ poll' \in {None, Overtaken}
    BY <1>8, SupersededOperation DEF DeleteDashboard, Bump, Discarded
  <2>2. nav' \in Navigation
    BY <1>8, DocumentFields, NewNavigation DEF DeleteDashboard
  <2>. QED
    BY <1>8, <2>1, <2>2 DEF DeleteDashboard, Click
<1>9. CASE ReloadRemoteDashboard
  <2>1. nav' \in Navigation \cup {None}
    BY <1>9, DocumentFields, NewNavigation DEF ReloadRemoteDashboard
  <2>2. [kind |-> "reload", id |-> doc.id, before |-> doc, current |-> TRUE] \in Operation
    BY <1>9, DocumentFields, NewReload DEF ReloadRemoteDashboard
  <2>3. work' \in Operation \cup {None}
    BY <1>9, <2>2 DEF ReloadRemoteDashboard
  <2>. QED
    BY <1>9, <2>1, <2>2, <2>3 DEF ReloadRemoteDashboard, Click, Discarded
<1>10. ASSUME NEW id \in Ids, OpenDashboard(id) PROVE TypeInv'
  <2>1. work' \in Operation \cup {None} /\ poll' \in {None, Overtaken}
    BY <1>10, SupersededOperation DEF OpenDashboard, Bump, Discarded
  <2>2. Ask("open", id) \in Navigation
    BY <1>10, NewNavigation DEF OpenDashboard
  <2>3. nav' \in Navigation \cup {None}
    BY <1>10, <2>2, NavigationFields DEF OpenDashboard
  <2>. QED
    BY <1>10, <2>1, <2>2, <2>3 DEF OpenDashboard, Click
<1>11. ASSUME NEW id \in Ids, MoveDashboard(id) PROVE TypeInv'
  <2>1. bodies' \in Bodies /\ None \in Revision
    BY <1>11, NextBody DEF MoveDashboard
  <2>2. work' \in Operation
    BY <1>11, <2>1, NewWrite DEF MoveDashboard
  <2>. QED
    BY <1>11, <2>1, <2>2, NextBody DEF MoveDashboard, Click
<1>12. ASSUME NEW id \in Ids, ImportBundle(id) PROVE TypeInv'
  <2>1. bodies' \in Bodies
    BY <1>12, NextBody DEF ImportBundle
  <2>2. work' \in Operation
    BY <1>12, <2>1, NewImport DEF ImportBundle
  <2>. QED
    BY <1>12, <2>1, <2>2, NextBody DEF ImportBundle, Click, Discarded
<1>13. CASE Confirm
  <2> USE DEF Confirm
  <2>1. nav \in Navigation /\ nav.id \in Ids /\ nav.before \in Document
    BY <1>13, NavigationFields DEF Modal
  <2>2. CASE nav.kind = "open"
    <3>1. nav' \in Navigation /\ UNCHANGED <<canvas, work, used>>
      BY <1>13, <2>1, <2>2, NavigationFields
    <3>. QED
      BY <1>13, <3>1
  <2>3. CASE nav.kind = "create"
    <3>1. nav' = None /\ UNCHANGED work /\ \E i \in Fresh : StartUnsaved(i, Blank)
      BY <1>13, <2>3
    <3>2. CanvasTyped' /\ used' \subseteq NewIds
      BY <3>1, StartUnsavedTypes, BlankBody
    <3>. QED
      BY <1>13, <3>1, <3>2
  <2>4. CASE nav.kind = "reload"
    <3>1. nav' = None /\ UNCHANGED <<canvas, used>> /\ work' \in Operation
      BY <1>13, <2>1, <2>4, NewReload
    <3>. QED
      BY <1>13, <3>1
  <2>5. CASE nav.kind = "delete"
    <3>1. nav' = None /\ UNCHANGED <<canvas, used>> /\ work' \in Operation
      BY <1>13, <2>1, <2>5, NewDelete
    <3>. QED
      BY <1>13, <3>1
  <2>. QED
    BY <2>1, <2>2, <2>3, <2>4, <2>5 DEF Navigation
<1>14. CASE Cancel
  BY <1>14 DEF Cancel
<1>15. CASE SaveAnswered
  <2>1. work.id \in Ids /\ work.body \in Bodies
    BY <1>15, OperationFields DEF SaveAnswered, Busy
  <2>2. server' \in Shelf /\ list' \in Shelf
    BY <1>15, <2>1, StoredFields, ShelfUpdate DEF SaveAnswered
  <2>3. saved' \in Document \cup {None}
    BY <1>15, <2>1, NewDocument DEF SaveAnswered, FinishSave
  <2>. QED
    BY <1>15, <2>1, <2>2, <2>3 DEF SaveAnswered, FinishSave, Relisted, Discarded
<1>16. CASE WriteRefused
  BY <1>16 DEF WriteRefused, WorkFails
<1>17. CASE DeleteAnswered
  <2>1. work.id \in Ids
    BY <1>17, OperationFields DEF DeleteAnswered, Busy
  <2>2. server' \in Shelf /\ list' \in Shelf
    BY <1>17, <2>1, ShelfUpdate DEF DeleteAnswered
  <2>3. CanvasTyped' /\ used' \subseteq NewIds
    BY <1>17, StartUnsavedTypes, BlankBody DEF DeleteAnswered
  <2>4. nav' \in Navigation \cup {None}
    BY <1>17 DEF DeleteAnswered
  <2>. QED
    BY <1>17, <2>1, <2>2, <2>3, <2>4 DEF DeleteAnswered, Relisted, Discarded
<1>18. CASE ReloadAnswered
  <2>1. work.id \in Ids
    BY <1>18, OperationFields DEF ReloadAnswered, Busy
  <2>2. list' \in Shelf
    BY <1>18, <2>1, ShelfUpdate, HeldFields DEF ReloadAnswered
  <2>3. CanvasTyped'
    BY <1>18, <2>1, HeldFields, NewDocument, ResetTypes DEF ReloadAnswered
  <2>4. etags' \in [Ids -> Revision]
    BY <1>18, <2>1, HeldFields DEF ReloadAnswered
  <2>5. poll' \in Refreshing \cup {None, Overtaken}
    BY <1>18 DEF ReloadAnswered, Relisted, Discarded
  <2>. QED
    BY <1>18, <2>1, <2>2, <2>3, <2>4, <2>5 DEF ReloadAnswered
<1>19. CASE MoveRead
  <2>1. work \in WriteOp /\ work.id \in Ids
    BY <1>19, OperationFields DEF MoveRead, Busy
  <2>2. work' \in Operation \cup {None}
    BY <1>19, <2>1, HeldFields, MovingOperation DEF MoveRead
  <2>. QED
    BY <1>19, <2>1, <2>2 DEF MoveRead
<1>20. CASE MoveAnswered
  <2>1. work.id \in Ids /\ work.body \in Bodies
    BY <1>20, OperationFields DEF MoveAnswered, Busy
  <2>2. server' \in Shelf /\ list' \in Shelf
    BY <1>20, <2>1, StoredFields, ShelfUpdate DEF MoveAnswered
  <2>3. poll' \in Refreshing \cup {None, Overtaken}
    BY <1>20 DEF MoveAnswered, Relisted, Discarded
  <2>4. etags' \in [Ids -> Revision]
    BY <1>20, <2>1 DEF MoveAnswered
  <2>5. floor' \in [Ids -> Nat] /\ clock' \in Nat
    BY <1>20, <2>1 DEF MoveAnswered
  <2>. QED
    BY <1>20, <2>1, <2>2, <2>3, <2>4, <2>5 DEF MoveAnswered
<1>21. CASE ImportSaved
  <2>1. work.id \in Ids /\ work.body \in Bodies
    BY <1>21, OperationFields DEF ImportSaved, Importing, Busy
  <2>2. server' \in Shelf /\ list' \in Shelf
    BY <1>21, <2>1, StoredFields, ShelfUpdate DEF ImportSaved
  <2>3. CanvasTyped'
    BY <1>21, <2>1, NewDocument, ResetTypes DEF ImportSaved
  <2>4. etags' \in [Ids -> Revision] /\ floor' \in [Ids -> Nat] /\ clock' \in Nat
    BY <1>21, <2>1 DEF ImportSaved
  <2>5. poll' \in Refreshing \cup {None, Overtaken}
    BY <1>21 DEF ImportSaved, Relisted, Discarded
  <2>. QED
    BY <1>21, <2>1, <2>2, <2>3, <2>4, <2>5 DEF ImportSaved
<1>22. CASE ImportFails
  BY <1>22 DEF ImportFails, WorkFails
<1>23. CASE AnswerLost
  <2>1. work.id \in Ids /\ (work.kind = "save" => work.body \in Bodies)
    BY <1>23, OperationFields DEF AnswerLost, Busy
  <2>2. server' \in Shelf
    BY <1>23, <2>1, StoredFields, ShelfUpdate DEF AnswerLost
  <2>. QED
    BY <1>23, <2>1, <2>2 DEF AnswerLost, WorkFails
<1>24. CASE OpenAnswered
  <2>1. nav.id \in Ids
    BY <1>24, NavigationFields DEF OpenAnswered
  <2>2. CanvasTyped'
    BY <1>24, <2>1, HeldFields, NewDocument, ResetTypes DEF OpenAnswered
  <2>3. etags' \in [Ids -> Revision]
    BY <1>24, <2>1, HeldFields DEF OpenAnswered
  <2>. QED
    BY <1>24, <2>1, <2>2, <2>3 DEF OpenAnswered
<1>25. CASE OpenFails
  BY <1>25 DEF OpenFails
<1>26. CASE PollStart
  <2>1. poll' \in Refreshing
    BY <1>26, DocumentFields DEF PollStart, Refreshing
  <2>. QED
    BY <1>26, <2>1 DEF PollStart
<1>27. CASE PollListed
  <2>1. poll' \in Refreshing
    BY <1>27, RefreshingFields DEF PollListed, Overtaken
  <2>. QED
    BY <1>27, <2>1 DEF PollListed
<1>28. CASE PollAnswered
  <2>1. PollValid => poll.id \in Ids /\ poll.listed \in Shelf
    BY <1>28, RefreshingFields DEF PollAnswered, PollValid, Overtaken
  <2>2. list' \in Shelf
    BY <1>28, <2>1, ShelfUpdate, ShelfFields DEF PollAnswered
  <2>3. CanvasTyped'
    BY <1>28, <2>1, ShelfFields, NewDocument, ResetTypes DEF PollAnswered, Adopt
  <2>4. etags' \in [Ids -> Revision]
    BY <1>28, <2>1, ShelfFields DEF PollAnswered, Adopt
  <2>. QED
    BY <1>28, <2>1, <2>2, <2>3, <2>4 DEF PollAnswered
<1>29. CASE PollStops
  BY <1>29 DEF PollStops
<1>30. ASSUME NEW id \in Ids, OthersWrite(id) PROVE TypeInv'
  <2>1. bodies' \in Bodies
    BY <1>30, NextBody DEF OthersWrite
  <2>2. server' \in Shelf
    BY <1>30, <2>1, StoredFields DEF OthersWrite
  <2>. QED
    BY <1>30, <2>1, <2>2 DEF OthersWrite
<1>31. ASSUME NEW id \in Ids, OthersDelete(id) PROVE TypeInv'
  <2>1. server' \in Shelf
    BY <1>31, ShelfUpdate DEF OthersDelete
  <2>. QED
    BY <1>31, <2>1 DEF OthersDelete
<1>32. CASE UNCHANGED vars
  BY <1>32
<1>. QED
  BY <1>1, <1>2, <1>3, <1>4, <1>5, <1>6, <1>7, <1>8, <1>9, <1>10, <1>11, <1>12, <1>13, <1>14,
     <1>15, <1>16, <1>17, <1>18, <1>19, <1>20, <1>21, <1>22, <1>23, <1>24, <1>25, <1>26, <1>27,
        <1>28, <1>29, <1>30, <1>31, <1>32 DEF Next, Answers, Refresh

-----------------------------------------------------------------------------
(* Revisions.                                                              *)

(* Steps that neither read nor write a version *)
LEMMA RevisionKept ==
    ASSUME RevisionInv, UNCHANGED <<etags, shown, overwrote>>,
           work' = None \/ work' = work \/ work'.kind \notin {"save", "move", "delete"}
    PROVE  RevisionInv'
  BY DEF RevisionInv, OverwritesShown

(* A navigation supersedes the operation under way and leaves its revision *)
LEMMA RevisionSuperseded ==
    ASSUME TypeInv, RevisionInv, UNCHANGED <<etags, shown, overwrote>>, work' = Superseded(work)
    PROVE  RevisionInv'
<1>1. CASE work = None
  BY <1>1, RevisionKept DEF Superseded
<1>2. CASE work # None
  BY <1>2, SupersededOperation DEF TypeInv, CanvasTyped, RevisionInv, OverwritesShown
<1>. QED
  BY <1>1, <1>2

(* An answer: the new revision is shown in the same step *)
LEMMA RevisionShown ==
    ASSUME TypeInv, RevisionInv, NEW i \in Ids, NEW b \in Revision,
           etags' = [etags EXCEPT ![i] = b],
           b # None => <<i, b>> \in shown', shown \subseteq shown',
           overwrote' \subseteq shown', work' = None \/ work' = work
    PROVE  RevisionInv'
<1>1. \A j \in Ids : etags'[j] # None => <<j, etags'[j]>> \in shown'
  BY DEF TypeInv, CanvasTyped, RevisionInv
<1>. QED
  BY <1>1 DEF RevisionInv, OverwritesShown

(* What an operation that carries a shown revision replaces was shown *)
LEMMA OverwrittenShown ==
    ASSUME RevisionInv, work # None, work.kind \in {"save", "move", "delete"}
    PROVE  Overwritten(work) \subseteq shown
  BY DEF RevisionInv, OverwritesShown, Overwritten

(* Every step keeps the revisions that wait among the versions shown *)
LEMMA RevisionStep == TypeInv /\ RevisionInv /\ [Next]_vars => RevisionInv'
<1> SUFFICES ASSUME TypeInv, RevisionInv, [Next]_vars PROVE RevisionInv'
  OBVIOUS
<1> USE DEF vars, canvas, pending, history, budget
<1>1. CASE Edit \/ Undo \/ Redo \/ ToggleEditing \/ Cancel
  BY <1>1, RevisionKept DEF Edit, Undo, Redo, ToggleEditing, Cancel
<1>2. CASE Save
  <2>1. work' = [kind |-> "save", id |-> doc.id, body |-> doc.body, etag |-> etags[doc.id],
                 current |-> TRUE] /\ UNCHANGED <<etags, shown, overwrote>>
    BY <1>2 DEF Save
  <2>2. work'.id = doc.id /\ work'.etag = etags[doc.id] /\ doc.id \in Ids
    BY <2>1, DocumentFields DEF TypeInv, CanvasTyped
  <2>. QED
    BY <2>1, <2>2 DEF RevisionInv, OverwritesShown
<1>3. CASE CreateDashboard \/ DuplicateDashboard \/ DeleteDashboard
  BY <1>3, RevisionSuperseded DEF CreateDashboard, DuplicateDashboard, DeleteDashboard, Bump
<1>4. CASE ReloadRemoteDashboard
  BY <1>4, RevisionKept DEF ReloadRemoteDashboard
<1>5. ASSUME NEW id \in Ids, OpenDashboard(id) PROVE RevisionInv'
  BY <1>5, RevisionSuperseded DEF OpenDashboard, Bump
<1>6. ASSUME NEW id \in Ids, MoveDashboard(id) PROVE RevisionInv'
  BY <1>6 DEF MoveDashboard, RevisionInv, OverwritesShown
<1>7. ASSUME NEW id \in Ids, ImportBundle(id) PROVE RevisionInv'
  BY <1>7, RevisionKept DEF ImportBundle
<1>8. CASE Confirm
  <2>1. UNCHANGED <<etags, shown, overwrote>> /\ nav \in Navigation
    BY <1>8 DEF Confirm, Modal, TypeInv, CanvasTyped
  <2>2. CASE nav.kind = "delete"
    <3>1. work' = [kind |-> "delete", id |-> nav.id, etag |-> etags[nav.id], current |-> TRUE]
      BY <1>8, <2>2 DEF Confirm
    <3>2. work'.id = nav.id /\ work'.etag = etags[nav.id] /\ nav.id \in Ids
      BY <2>1, <3>1, NavigationFields
    <3>. QED
      BY <2>1, <3>2 DEF RevisionInv, OverwritesShown
  <2>3. CASE nav.kind \in {"open", "create"}
    BY <1>8, <2>1, <2>3, RevisionKept DEF Confirm
  <2>4. CASE nav.kind = "reload"
    BY <1>8, <2>1, <2>4, RevisionKept DEF Confirm
  <2>. QED
    BY <2>1, <2>2, <2>3, <2>4 DEF Navigation
<1>9. CASE SaveAnswered
  <2>1. work # None /\ work.kind = "save" /\ work.id \in Ids /\ work.body \in Revision
    BY <1>9, OperationFields DEF SaveAnswered, Busy, TypeInv, CanvasTyped, Revision
  <2>. QED
    BY <1>9, <2>1, OverwrittenShown, RevisionShown DEF SaveAnswered
<1>10. CASE DeleteAnswered
  <2>1. work # None /\ work.kind = "delete" /\ work.id \in Ids /\ None \in Revision
    BY <1>10, OperationFields DEF DeleteAnswered, Busy, TypeInv, CanvasTyped, Revision
  <2>. QED
    BY <1>10, <2>1, OverwrittenShown, RevisionShown DEF DeleteAnswered
<1>11. CASE WriteRefused \/ ImportFails
  BY <1>11, RevisionKept DEF WriteRefused, ImportFails, WorkFails
<1>12. CASE AnswerLost
  <2>1. work # None /\ work.kind \in {"save", "delete"}
    BY <1>12 DEF AnswerLost, Busy
  <2>2. overwrote' \subseteq shown' /\ shown \subseteq shown' /\ UNCHANGED etags /\ work' = None
    BY <1>12, <2>1, OverwrittenShown DEF AnswerLost, WorkFails
  <2>. QED
    BY <2>2 DEF RevisionInv, OverwritesShown
<1>13. CASE ReloadAnswered
  <2>1. work.id \in Ids /\ work' = None /\ Held(work.id) \in Revision /\ UNCHANGED overwrote
    BY <1>13, OperationFields, HeldFields DEF ReloadAnswered, Busy, TypeInv, CanvasTyped
  <2>2. CASE UNCHANGED <<etags, shown>>
    BY <2>1, <2>2, RevisionKept
  <2>3. CASE /\ etags' = [etags EXCEPT ![work.id] = Held(work.id)]
             /\ shown' = shown \cup {<<work.id, Held(work.id)>>}
    BY <2>1, <2>3, RevisionShown DEF RevisionInv, OverwritesShown
  <2>. QED
    BY <1>13, <2>2, <2>3 DEF ReloadAnswered
<1>14. CASE MoveRead
  <2>1. work \in WriteOp /\ work.id \in Ids /\ Held(work.id) \in Revision /\ UNCHANGED <<etags,
     overwrote>>
    BY <1>14, OperationFields, HeldFields DEF MoveRead, Busy, TypeInv, CanvasTyped
  <2>2. CASE Held(work.id) = None
    BY <1>14, <2>1, <2>2, RevisionKept DEF MoveRead
  <2>3. CASE Held(work.id) # None
    <3>1. work' = [work EXCEPT !.etag = Held(work.id)] /\ shown' = shown \cup {<<work.id,
       Held(work.id)>>}
      BY <1>14, <2>3 DEF MoveRead
    <3>2. work'.id = work.id /\ work'.etag = Held(work.id)
      BY <2>1, <3>1, MovingOperation
    <3>. QED
      BY <2>1, <3>1, <3>2 DEF RevisionInv, OverwritesShown
  <2>. QED
    BY <2>2, <2>3
<1>15. CASE MoveAnswered
  <2>1. work # None /\ work.kind = "move" /\ work.id \in Ids /\ work.body \in Revision
    BY <1>15, OperationFields DEF MoveAnswered, Busy, TypeInv, CanvasTyped, Revision
  <2>2. CASE Held(work.id) = work.etag
    BY <1>15, <2>1, <2>2, OverwrittenShown, RevisionShown DEF MoveAnswered
  <2>3. CASE Held(work.id) # work.etag
    BY <1>15, <2>3, RevisionKept DEF MoveAnswered
  <2>. QED
    BY <2>2, <2>3
<1>16. CASE ImportSaved
  <2>1. work.id \in Ids /\ work.body \in Revision /\ work' = None /\ UNCHANGED overwrote
    BY <1>16, OperationFields DEF ImportSaved, Importing, Busy, TypeInv, CanvasTyped, Revision
  <2>2. CASE UNCHANGED <<etags, shown>>
    BY <2>1, <2>2, RevisionKept
  <2>3. CASE /\ etags' = [etags EXCEPT ![work.id] = work.body]
             /\ shown' = shown \cup {<<work.id, work.body>>}
    BY <2>1, <2>3, RevisionShown DEF RevisionInv, OverwritesShown
  <2>. QED
    BY <1>16, <2>2, <2>3 DEF ImportSaved
<1>17. CASE OpenAnswered
  <2>1. nav.id \in Ids /\ UNCHANGED <<work, overwrote>> /\ Held(nav.id) \in Revision
    BY <1>17, NavigationFields, HeldFields DEF OpenAnswered, TypeInv, CanvasTyped
  <2>2. CASE UNCHANGED <<etags, shown>>
    BY <2>1, <2>2, RevisionKept
  <2>3. CASE /\ etags' = [etags EXCEPT ![nav.id] = Held(nav.id)]
             /\ shown' = shown \cup {<<nav.id, Held(nav.id)>>}
    BY <2>1, <2>3, RevisionShown DEF RevisionInv, OverwritesShown
  <2>. QED
    BY <1>17, <2>2, <2>3 DEF OpenAnswered
<1>18. CASE OpenFails \/ PollStart \/ PollListed \/ PollStops
  BY <1>18, RevisionKept DEF OpenFails, PollStart, PollListed, PollStops
<1>19. CASE PollAnswered
  <2>1. UNCHANGED <<work, overwrote>>
    BY <1>19 DEF PollAnswered
  <2>2. CASE UNCHANGED <<etags, shown>>
    BY <2>1, <2>2, RevisionKept
  <2>3. CASE ~ UNCHANGED <<etags, shown>>
    <3>1. PollValid /\ server[poll.id] # None /\ Adopt(server[poll.id])
      BY <1>19, <2>3 DEF PollAnswered
    <3>2. poll.id \in Ids
      BY <1>19, <3>1, RefreshingFields DEF PollAnswered, PollValid, Overtaken, TypeInv,
         CanvasTyped
    <3>3. /\ server[poll.id].body \in Revision
          /\ etags' = [etags EXCEPT ![poll.id] = server[poll.id].body]
          /\ shown' = shown \cup {<<poll.id, server[poll.id].body>>}
      BY <2>3, <3>1, <3>2, ShelfFields DEF Adopt, TypeInv, CanvasTyped, Revision
    <3>. QED
      BY <2>1, <3>2, <3>3, RevisionShown DEF RevisionInv, OverwritesShown
  <2>. QED
    BY <2>2, <2>3
<1>20. ASSUME NEW id \in Ids, OthersWrite(id) \/ OthersDelete(id) PROVE RevisionInv'
  BY <1>20, RevisionKept DEF OthersWrite, OthersDelete
<1>21. CASE UNCHANGED vars
  BY <1>21, RevisionKept
<1>. QED
  BY <1>1, <1>2, <1>3, <1>4, <1>5, <1>6, <1>7, <1>8, <1>9, <1>10, <1>11, <1>12, <1>13, <1>14,
     <1>15, <1>16, <1>17, <1>18, <1>19, <1>20, <1>21 DEF Next, Answers, Refresh

-----------------------------------------------------------------------------
(* Versions.                                                               *)

(* Steps that change neither the store nor the library, and at most end or *)
(* discard a refresh                                                       *)
LEMMA FloorKept ==
    ASSUME FloorInv, UNCHANGED <<server, list, floor, clock>>,
           poll' \in {poll, None, Overtaken}
    PROVE  FloorInv'
  BY DEF FloorInv, NotOlder, Overtaken

(* A write of the console that is answered: the store and the library get  *)
(* the newest version, or none, and no refresh under way is believed       *)
LEMMA FloorRaised ==
    ASSUME TypeInv, FloorInv, NEW i \in Ids, NEW v \in Version \cup {None},
           v # None => v.ver = clock + 1,
           server' = [server EXCEPT ![i] = v], list' = [list EXCEPT ![i] = v],
           floor' = [floor EXCEPT ![i] = clock + 1], clock' = clock + 1,
           poll' \in {None, Overtaken}
    PROVE  FloorInv'
<1>1. \A j \in Ids : floor'[j] = IF j = i THEN clock + 1 ELSE floor[j]
  BY DEF TypeInv, CanvasTyped
<1>2. \A j \in Ids : /\ server'[j] = IF j = i THEN v ELSE server[j]
                     /\ list'[j] = IF j = i THEN v ELSE list[j]
  BY DEF TypeInv, CanvasTyped, Shelf
<1>3. clock \in Nat /\ \A j \in Ids : floor[j] \in Nat
  BY DEF TypeInv, CanvasTyped
<1>. QED
  BY <1>1, <1>2, <1>3 DEF FloorInv, NotOlder, Overtaken

(* A write of somebody else, or one the console does not hear of *)
LEMMA FloorOvertaken ==
    ASSUME TypeInv, FloorInv, NEW i \in Ids, NEW v \in Version \cup {None},
           v # None => v.ver = clock + 1,
           server' = [server EXCEPT ![i] = v], clock' = clock + 1, UNCHANGED <<list, floor, poll>>
    PROVE  FloorInv'
<1>1. \A j \in Ids : server'[j] = IF j = i THEN v ELSE server[j]
  BY DEF TypeInv, CanvasTyped, Shelf
<1>2. clock \in Nat /\ \A j \in Ids : floor[j] \in Nat
  BY DEF TypeInv, CanvasTyped
<1>. QED
  BY <1>1, <1>2 DEF FloorInv, NotOlder

(* A refresh that was overtaken is not believed *)
LEMMA RelistedPoll ==
    ASSUME TypeInv PROVE Relisted(poll) \in {None, Overtaken} /\ Discarded(poll) \in {None, Overtaken}
  BY DEF Relisted, Discarded

(* Every step keeps the store, the library and the refresh up to date *)
LEMMA FloorStep == TypeInv /\ FloorInv /\ [Next]_vars => FloorInv'
<1> SUFFICES ASSUME TypeInv, FloorInv, [Next]_vars PROVE FloorInv'
  OBVIOUS
<1> USE DEF vars, canvas, pending, history, budget
<1>1. CASE Edit \/ Undo \/ Redo \/ ToggleEditing \/ Cancel \/ Save \/ Confirm
  BY <1>1, FloorKept DEF Edit, Undo, Redo, ToggleEditing, Cancel, Save, Confirm
<1>2. CASE CreateDashboard \/ DuplicateDashboard \/ DeleteDashboard \/ ReloadRemoteDashboard
  BY <1>2, FloorKept, RelistedPoll
     DEF CreateDashboard, DuplicateDashboard, DeleteDashboard, ReloadRemoteDashboard, Bump
<1>3. ASSUME NEW id \in Ids,
   OpenDashboard(id) \/ MoveDashboard(id) \/ ImportBundle(id) PROVE FloorInv'
  BY <1>3, FloorKept, RelistedPoll DEF OpenDashboard, MoveDashboard, ImportBundle, Bump
<1>4. CASE WriteRefused \/ ImportFails \/ MoveRead \/ OpenAnswered \/ OpenFails \/ PollStops
  BY <1>4, FloorKept DEF WriteRefused, ImportFails, WorkFails, MoveRead, OpenAnswered,
     OpenFails, PollStops
<1>5. CASE SaveAnswered
  <2>1. work.id \in Ids /\ work.body \in Bodies /\ clock \in Nat /\ server \in Shelf
    BY <1>5, OperationFields DEF SaveAnswered, Busy, TypeInv, CanvasTyped
  <2>2. [body |-> work.body, ver |-> clock + 1] \in Version
    BY <2>1, NewVersion
  <2>. QED
    BY <1>5, <2>1, <2>2, FloorRaised, RelistedPoll DEF SaveAnswered, Stored
<1>6. CASE DeleteAnswered
  <2>1. work.id \in Ids
    BY <1>6, OperationFields DEF DeleteAnswered, Busy, TypeInv, CanvasTyped
  <2>. QED
    BY <1>6, <2>1, FloorRaised, RelistedPoll DEF DeleteAnswered
<1>7. CASE MoveAnswered
  <2>1. work.id \in Ids /\ work.body \in Bodies /\ clock \in Nat
    BY <1>7, OperationFields DEF MoveAnswered, Busy, TypeInv, CanvasTyped
  <2>2. [body |-> work.body, ver |-> clock + 1] \in Version
    BY <2>1, NewVersion
  <2>3. CASE Held(work.id) = work.etag
    BY <1>7, <2>1, <2>2, <2>3, FloorRaised, RelistedPoll DEF MoveAnswered, Stored
  <2>4. CASE Held(work.id) # work.etag
    BY <1>7, <2>4, FloorKept DEF MoveAnswered
  <2>. QED
    BY <2>3, <2>4
<1>8. CASE ImportSaved
  <2>1. work.id \in Ids /\ work.body \in Bodies /\ clock \in Nat
    BY <1>8, OperationFields DEF ImportSaved, Importing, Busy, TypeInv, CanvasTyped
  <2>2. [body |-> work.body, ver |-> clock + 1] \in Version
    BY <2>1, NewVersion
  <2>. QED
    BY <1>8, <2>1, <2>2, FloorRaised, RelistedPoll DEF ImportSaved, Stored
<1>9. CASE AnswerLost
  <2>1. work.id \in Ids /\ (work.kind = "save" => work.body \in Bodies) /\ clock \in Nat
    BY <1>9, OperationFields DEF AnswerLost, Busy, TypeInv, CanvasTyped
  <2>2. clock' = clock + 1 /\ UNCHANGED <<list, floor, poll>>
    BY <1>9 DEF AnswerLost, WorkFails
  <2>3. CASE work.kind = "save"
    <3>1. [body |-> work.body, ver |-> clock + 1] \in Version
      BY <2>1, <2>3, NewVersion
    <3>. QED
      BY <1>9, <2>1, <2>2, <2>3, <3>1, FloorOvertaken DEF AnswerLost, Stored
  <2>4. CASE work.kind # "save"
    BY <1>9, <2>1, <2>2, <2>4, FloorOvertaken DEF AnswerLost
  <2>. QED
    BY <2>3, <2>4
<1>10. CASE ReloadAnswered
  <2>1. work.id \in Ids /\ server \in Shelf /\ list \in Shelf /\ UNCHANGED <<server, floor,
     clock>>
    BY <1>10, OperationFields DEF ReloadAnswered, Busy, TypeInv, CanvasTyped
  <2>2. CASE UNCHANGED <<list, poll>>
    BY <2>1, <2>2, FloorKept
  <2>3. CASE list' = [list EXCEPT ![work.id] = server[work.id]] /\ poll' = Relisted(poll)
    <3>1. server[work.id] \in Version \cup {None}
      BY <2>1, ShelfFields
    <3>2. \A j \in Ids : list'[j] = IF j = work.id THEN server[j] ELSE list[j]
      BY <2>1, <2>3, <3>1, ShelfUpdate
    <3>. QED
      BY <2>1, <2>3, <3>2, RelistedPoll DEF FloorInv, NotOlder, Overtaken
  <2>. QED
    BY <1>10, <2>2, <2>3 DEF ReloadAnswered
<1>11. CASE PollStart
  <2>1. poll'.listed = None /\ UNCHANGED <<server, list, floor, clock>>
    BY <1>11 DEF PollStart
  <2>. QED
    BY <2>1 DEF FloorInv, NotOlder
<1>12. CASE PollListed
  <2>1. poll \in Refreshing /\ server \in Shelf
    BY <1>12 DEF PollListed, TypeInv, Overtaken
  <2>2. poll'.listed = server /\ UNCHANGED <<server, list, floor, clock>>
    BY <1>12, <2>1, RefreshingFields DEF PollListed
  <2>. QED
    BY <2>2 DEF FloorInv, NotOlder
<1>13. CASE PollAnswered
  <2>1. UNCHANGED <<server, floor, clock>> /\ poll' = None
    BY <1>13 DEF PollAnswered
  <2>2. CASE UNCHANGED list
    BY <2>1, <2>2, FloorKept
  <2>3. CASE ~ UNCHANGED list
    <3>1. poll # None /\ poll.current /\ poll.listed # None
      BY <1>13, <2>3 DEF PollAnswered, PollValid
    <3>2. poll.id \in Ids /\ poll.listed \in Shelf /\ server \in Shelf
      BY <3>1, RefreshingFields DEF TypeInv, CanvasTyped, Overtaken
    <3>3. server[poll.id] \in Version \cup {None}
      BY <3>2, ShelfFields
    <3>4. \A j \in Ids : list'[j] \in {poll.listed[j], server[j]}
      BY <1>13, <2>3, <3>2, <3>3, ShelfUpdate DEF PollAnswered
    <3>5. NotOlder(poll.listed) /\ NotOlder(server)
      BY <3>1 DEF FloorInv
    <3>. QED
      BY <2>1, <3>4, <3>5 DEF FloorInv, NotOlder
  <2>. QED
    BY <2>2, <2>3
<1>14. ASSUME NEW id \in Ids, OthersWrite(id) PROVE FloorInv'
  <2>1. bodies' \in Bodies /\ clock \in Nat
    BY <1>14, NextBody DEF OthersWrite, TypeInv, CanvasTyped
  <2>2. [body |-> bodies', ver |-> clock + 1] \in Version
    BY <2>1, NewVersion
  <2>. QED
    BY <1>14, <2>2, FloorOvertaken DEF OthersWrite, Stored
<1>15. ASSUME NEW id \in Ids, OthersDelete(id) PROVE FloorInv'
  BY <1>15, FloorOvertaken DEF OthersDelete
<1>16. CASE UNCHANGED vars
  BY <1>16, FloorKept
<1>. QED
  BY <1>1, <1>2, <1>3, <1>4, <1>5, <1>6, <1>7, <1>8, <1>9, <1>10, <1>11, <1>12, <1>13, <1>14,
     <1>15, <1>16 DEF Next, Answers, Refresh

-----------------------------------------------------------------------------
(* Drafts.                                                                 *)

(* A refresh that will be believed is about the dashboard on the canvas,   *)
(* unless it was before this step                                          *)
PollStill == poll' # None /\ poll'.current
                => poll'.id = doc.id \/ (poll # None /\ poll.current /\ poll'.id = poll.id)

(* What was on the canvas is in the history after an edit, an undo or a redo *)
LEMMA AppendedRange == \A q \in Seq(Bodies), b \in Bodies : b \in Range(Append(q, b))
<1> SUFFICES ASSUME NEW q \in Seq(Bodies), NEW b \in Bodies PROVE b \in Range(Append(q, b))
  OBVIOUS
<1>1. Len(q) + 1 \in DOMAIN Append(q, b) /\ Append(q, b)[Len(q) + 1] = b
  OBVIOUS
<1>. QED
  BY <1>1 DEF Range

LEMMA PrependedRange == \A q \in Seq(Bodies), b \in Bodies : b \in Range(<<b>> \o q)
<1> SUFFICES ASSUME NEW q \in Seq(Bodies), NEW b \in Bodies PROVE b \in Range(<<b>> \o q)
  OBVIOUS
<1>1. 1 \in DOMAIN (<<b>> \o q) /\ (<<b>> \o q)[1] = b
  OBVIOUS
<1>. QED
  BY <1>1 DEF Range

(* A step that leaves the canvas and the questions alone *)
LEMMA DraftCarried ==
    ASSUME DraftInv, UNCHANGED <<doc, saved, editing, nav, agreed>>, shown \subseteq shown',
           work' = work \/ work' = None, PollStill
    PROVE  DraftInv'
<1>1. \A d : Seen(d) => Seen(d)'
  BY DEF Seen
<1>2. saved' # None => Seen(saved)'
  BY <1>1 DEF DraftInv, Seen
<1>3. QuestionInv'
  BY DEF DraftInv, QuestionInv, PollStill, Modal, Dirty
<1>4. ReplacingInv'
  BY <1>1 DEF DraftInv, ReplacingInv, Yielded, Seen
<1>. QED
  BY <1>2, <1>3, <1>4 DEF DraftInv

(* An edit, where nothing is asked *)
LEMMA DraftEdited ==
    ASSUME DraftInv, ~Modal, doc'.id = doc.id, UNCHANGED <<saved, nav, work, agreed, shown>>
    PROVE  DraftInv'
  BY DEF DraftInv, QuestionInv, ReplacingInv, Modal, Yielded, Seen

(* A save or a move begins, or learns its revision *)
LEMMA DraftWriting ==
    ASSUME DraftInv, UNCHANGED <<doc, saved, editing, nav, agreed, poll>>, shown \subseteq shown',
           work'.kind \in {"save", "move"},
           ~Modal \/ (work # None /\ work'.current = work.current)
    PROVE  DraftInv'
<1>1. saved' # None => Seen(saved)'
  BY DEF DraftInv, Seen
<1>2. QuestionInv'
  BY DEF DraftInv, QuestionInv, Modal, Dirty
<1>3. ReplacingInv'
  BY DEF DraftInv, ReplacingInv, Yielded, Seen
<1>. QED
  BY <1>1, <1>2, <1>3 DEF DraftInv

(* A navigation supersedes the operation under way *)
LEMMA ReplacingSuperseded ==
    ASSUME TypeInv, ReplacingInv, Bump, UNCHANGED <<agreed, shown>>,
           nav' # None /\ nav'.phase = "load" => Yielded(nav.before)'
    PROVE  ReplacingInv' /\ (work' # None => ~work'.current) /\ (work = None => work' = None)
<1>1. work \in Operation \cup {None} /\ work' = Superseded(work)
  BY DEF TypeInv, Bump
<1>2. work' # None => /\ work # None /\ ~work'.current /\ work'.kind = work.kind /\ work'.id = work.id
                      /\ work.kind = "import" => work'.before = work.before
  BY <1>1, SupersededOperation
<1>3. work = None => work' = None
  BY <1>1, SupersededOperation
<1>. QED
  BY <1>2, <1>3 DEF ReplacingInv, Yielded, Seen

(* Every step keeps what is saved among the versions shown, the questions  *)
(* about what they asked, and replacements to what the user gave up        *)
LEMMA DraftStep == TypeInv /\ DraftInv /\ [Next]_vars => DraftInv'
<1> SUFFICES ASSUME TypeInv, DraftInv, [Next]_vars PROVE DraftInv'
  OBVIOUS
<1> USE DEF vars, canvas, pending, history, budget
<1>1. CASE Edit \/ Undo \/ Redo
  <2>1. doc \in Document /\ doc'.id = doc.id
    BY <1>1 DEF Edit, Undo, Redo, Updated, TypeInv, CanvasTyped, Document
  <2>. QED
    BY <1>1, <2>1, DraftEdited DEF Edit, Undo, Redo
<1>2. CASE ToggleEditing
  BY <1>2, DraftEdited DEF ToggleEditing
<1>3. CASE Save
  <2>1. work'.kind = "save" /\ ~Modal /\ UNCHANGED <<doc, saved, editing, nav, agreed, poll, shown>>
    BY <1>3 DEF Save
  <2>. QED
    BY <2>1, DraftWriting
<1>4. ASSUME NEW id \in Ids, MoveDashboard(id) PROVE DraftInv'
  <2>1. work'.kind = "move" /\ ~Modal /\ UNCHANGED <<doc, saved, editing, nav, agreed, poll, shown>>
    BY <1>4 DEF MoveDashboard
  <2>. QED
    BY <2>1, DraftWriting
<1>5. CASE MoveRead
  <2>1. work \in WriteOp /\ Held(work.id) \in Revision
    BY <1>5, OperationFields, HeldFields DEF MoveRead, Busy, TypeInv
  <2>2. UNCHANGED <<doc, saved, editing, nav, agreed, poll>> /\ shown \subseteq shown'
    BY <1>5 DEF MoveRead
  <2>3. CASE Held(work.id) = None
    <3>1. work' = None
      BY <1>5, <2>3 DEF MoveRead
    <3>2. PollStill
      BY <2>2 DEF PollStill
    <3>. QED
      BY <2>2, <3>1, <3>2, DraftCarried
  <2>4. CASE Held(work.id) # None
    <3>1. work' = [work EXCEPT !.etag = Held(work.id)]
      BY <1>5, <2>4 DEF MoveRead
    <3>2. work # None /\ work.kind = "move"
      BY <1>5 DEF MoveRead, Busy
    <3>3. work'.kind = "move" /\ work'.current = work.current
      BY <2>1, <3>1, <3>2, MovingOperation
    <3>. QED
      BY <2>2, <3>2, <3>3, DraftWriting
  <2>. QED
    BY <2>3, <2>4
<1>6. CASE WriteRefused \/ AnswerLost \/ ImportFails
  <2>1. UNCHANGED <<doc, saved, editing, nav, agreed, poll>> /\ work' = None /\ shown \subseteq shown'
    BY <1>6 DEF WriteRefused, AnswerLost, ImportFails, WorkFails
  <2>2. PollStill
    BY <2>1 DEF PollStill
  <2>. QED
    BY <2>1, <2>2, DraftCarried
<1>7. CASE MoveAnswered
  <2>1. UNCHANGED <<doc, saved, editing, nav, agreed>> /\ work' = None /\ shown \subseteq shown'
    BY <1>7 DEF MoveAnswered
  <2>2. poll' \in {poll, None, Overtaken}
    BY <1>7 DEF MoveAnswered, Relisted, Discarded
  <2>3. PollStill
    BY <2>2 DEF PollStill, Overtaken
  <2>. QED
    BY <2>1, <2>3, DraftCarried
<1>8. CASE PollStart \/ PollListed \/ PollStops
  <2>1. UNCHANGED <<doc, saved, editing, nav, agreed, work, shown>>
    BY <1>8 DEF PollStart, PollListed, PollStops
  <2>2. PollStill
    <3>1. CASE PollStart
      BY <3>1 DEF PollStart, PollStill
    <3>2. CASE PollListed
      <4>1. poll \in Refreshing /\ server \in Shelf
        BY <3>2 DEF PollListed, TypeInv, Overtaken
      <4>2. poll'.id = poll.id
        BY <3>2, <4>1 DEF PollListed, Refreshing
      <4>. QED
        BY <3>2, <4>2 DEF PollListed, PollStill
    <3>3. CASE PollStops
      BY <3>3 DEF PollStops, PollStill
    <3>. QED
      BY <1>8, <3>1, <3>2, <3>3
  <2>. QED
    BY <2>1, <2>2, DraftCarried
<1>9. ASSUME NEW id \in Ids, OthersWrite(id) \/ OthersDelete(id) PROVE DraftInv'
  <2>1. UNCHANGED <<doc, saved, editing, nav, agreed, work, shown, poll>>
    BY <1>9 DEF OthersWrite, OthersDelete
  <2>2. PollStill
    BY <2>1 DEF PollStill
  <2>. QED
    BY <2>1, <2>2, DraftCarried
<1>10. CASE UNCHANGED vars
  <2>1. UNCHANGED <<doc, saved, editing, nav, agreed, work, shown, poll>>
    BY <1>10
  <2>2. PollStill
    BY <2>1 DEF PollStill
  <2>. QED
    BY <2>1, <2>2, DraftCarried
<1>11. CASE OpenFails \/ Cancel
  BY <1>11 DEF OpenFails, Cancel, DraftInv, QuestionInv, ReplacingInv, Modal, Yielded, Seen
<1>12. ASSUME NEW id \in Ids, OpenDashboard(id) PROVE DraftInv'
  <2>1. Bump /\ work = None /\ UNCHANGED <<doc, saved, editing, agreed, shown>>
    BY <1>12 DEF OpenDashboard, Busy
  <2>2. Ask("open", id) \in Navigation /\ Ask("open", id).before = doc /\ Ask("open", id).kind = "open"
        /\ Ask("open", id).phase = "confirm"
    BY <1>12, NewNavigation DEF TypeInv, CanvasTyped, Ask
  <2>3. PICK ask : ask = Ask("open", id)
    OBVIOUS
  <2>4. [ask EXCEPT !.phase = "load"].before = doc /\ [ask EXCEPT !.phase = "load"].phase = "load"
    BY <2>2, <2>3 DEF Navigation
  <2>5. nav' = None \/ (~Dirty /\ nav' = [ask EXCEPT !.phase = "load"]) \/ (Dirty /\ nav' = ask)
    BY <1>12, <2>3 DEF OpenDashboard
  <2>6. nav' # None /\ nav'.phase = "load" => Yielded(nav.before)'
    <3>1. ~Dirty => Seen(doc)
      BY NoneAssumption DEF Dirty, DraftInv, TypeInv, CanvasTyped
    <3>. QED
      BY <2>1, <2>2, <2>3, <2>4, <2>5, <3>1 DEF Yielded, Seen
  <2>7. ReplacingInv' /\ work' = None
    BY <2>1, <2>6, ReplacingSuperseded DEF DraftInv
  <2>8. QuestionInv'
    BY <2>1, <2>2, <2>3, <2>4, <2>5, <2>7 DEF QuestionInv, Modal, Dirty
  <2>. QED
    BY <2>1, <2>7, <2>8 DEF DraftInv, Seen
<1>13. CASE CreateDashboard
  <2>1. Bump /\ UNCHANGED <<agreed, shown>>
    BY <1>13 DEF CreateDashboard
  <2>2. nav' = None \/ (nav' = Ask("create", doc.id) /\ UNCHANGED <<doc, saved, editing>>)
    BY <1>13 DEF CreateDashboard
  <2>3. ReplacingInv' /\ (work' # None => ~work'.current)
    BY <2>1, <2>2, ReplacingSuperseded DEF DraftInv, Ask
  <2>4. QuestionInv'
    BY <2>2, <2>3 DEF QuestionInv, Modal, Ask
  <2>5. saved' = saved \/ saved' = None
    BY <1>13 DEF CreateDashboard, StartUnsaved
  <2>. QED
    BY <2>1, <2>3, <2>4, <2>5 DEF DraftInv, Seen
<1>14. CASE DuplicateDashboard
  <2>1. Bump /\ UNCHANGED <<agreed, shown>> /\ nav' = None /\ saved' = None
    BY <1>14 DEF DuplicateDashboard, StartUnsaved
  <2>2. ReplacingInv'
    BY <2>1, ReplacingSuperseded DEF DraftInv
  <2>. QED
    BY <2>1, <2>2 DEF DraftInv, QuestionInv, Modal
<1>15. CASE DeleteDashboard
  <2>1. Bump /\ UNCHANGED <<agreed, shown, doc, saved>> /\ work = None /\ nav' = Ask("delete", doc.id)
    BY <1>15 DEF DeleteDashboard, Busy
  <2>2. ReplacingInv' /\ work' = None
    BY <2>1, ReplacingSuperseded DEF DraftInv, Ask
  <2>3. poll' \in {None, Overtaken}
    BY <2>1 DEF Bump, Discarded
  <2>4. QuestionInv'
    BY <2>1, <2>2, <2>3 DEF QuestionInv, Modal, Ask, Overtaken
  <2>. QED
    BY <2>1, <2>2, <2>4 DEF DraftInv, Seen
<1>16. CASE ReloadRemoteDashboard
  <2>1. work = None /\ UNCHANGED <<doc, saved, editing, agreed, shown>>
    BY <1>16 DEF ReloadRemoteDashboard, Busy
  <2>2. CASE Dirty \/ editing
    <3>1. nav' = Ask("reload", doc.id) /\ work' = None
      BY <1>16, <2>1, <2>2 DEF ReloadRemoteDashboard
    <3>2. QuestionInv'
      BY <2>1, <2>2, <3>1 DEF QuestionInv, Modal, Ask, Dirty
    <3>. QED
      BY <2>1, <3>1, <3>2 DEF DraftInv, ReplacingInv, Ask, Seen
  <2>3. CASE ~Dirty /\ ~editing
    <3>1. nav' = None /\ work'.kind = "reload" /\ work'.before = doc
      BY <1>16, <2>3 DEF ReloadRemoteDashboard
    <3>2. Seen(doc)
      BY <2>3, NoneAssumption DEF Dirty, DraftInv, TypeInv, CanvasTyped
    <3>. QED
      BY <2>1, <3>1, <3>2 DEF DraftInv, QuestionInv, ReplacingInv, Modal, Yielded, Seen
  <2>. QED
    BY <2>2, <2>3
<1>17. ASSUME NEW id \in Ids, ImportBundle(id) PROVE DraftInv'
  <2>1. nav' = None /\ UNCHANGED <<doc, saved, agreed, shown>> /\ ~(Dirty /\ id = doc.id)
    BY <1>17 DEF ImportBundle
  <2>2. work'.kind = "import" /\ work'.id = id /\ work'.before = doc
    BY <1>17 DEF ImportBundle
  <2>3. work'.id = work'.before.id => Seen(work.before)'
    BY <2>1, <2>2, NoneAssumption DEF Dirty, DraftInv, Seen, TypeInv, CanvasTyped
  <2>. QED
    BY <2>1, <2>2, <2>3 DEF DraftInv, QuestionInv, ReplacingInv, Modal, Seen
<1>18. CASE Confirm
  <2>1. Modal /\ nav \in Navigation /\ UNCHANGED <<shown, poll>>
    BY <1>18 DEF Confirm, Modal, TypeInv
  <2>2. QuestionInv /\ ReplacingInv
    BY DEF DraftInv
  <2>3. CASE nav.kind = "open"
    <3>1. nav' = [nav EXCEPT !.phase = "load"] /\ UNCHANGED <<doc, saved, work>>
          /\ agreed' = <<doc.id, doc.body>>
      BY <1>18, <2>3 DEF Confirm
    <3>2. nav'.phase = "load" /\ nav'.before = doc /\ work' = None
      BY <2>1, <2>2, <2>3, <3>1 DEF QuestionInv, Navigation
    <3>. QED
      BY <2>1, <3>1, <3>2 DEF DraftInv, QuestionInv, ReplacingInv, Modal, Yielded, Seen
  <2>4. CASE nav.kind = "create"
    <3>1. nav' = None /\ saved' = None /\ UNCHANGED work
      BY <1>18, <2>4 DEF Confirm, StartUnsaved
    <3>2. work # None => ~work.current
      BY <2>1, <2>2 DEF QuestionInv
    <3>. QED
      BY <2>1, <2>2, <3>1, <3>2 DEF DraftInv, QuestionInv, ReplacingInv, Modal, Seen
  <2>5. CASE nav.kind = "reload"
    <3>1. nav' = None /\ UNCHANGED <<doc, saved>> /\ agreed' = <<doc.id, doc.body>>
          /\ work'.kind = "reload" /\ work'.before = nav.before
      BY <1>18, <2>5 DEF Confirm
    <3>2. nav.before = doc
      BY <2>1, <2>2, <2>5 DEF QuestionInv
    <3>. QED
      BY <2>1, <3>1, <3>2 DEF DraftInv, QuestionInv, ReplacingInv, Modal, Yielded, Seen
  <2>6. CASE nav.kind = "delete"
    <3>1. nav' = None /\ UNCHANGED <<doc, saved>> /\ agreed' = <<nav.id, None>>
          /\ work'.kind = "delete" /\ work'.id = nav.id
      BY <1>18, <2>6 DEF Confirm
    <3>2. nav.id = doc.id
      BY <2>1, <2>2, <2>6 DEF QuestionInv
    <3>. QED
      BY <2>1, <3>1, <3>2 DEF DraftInv, QuestionInv, ReplacingInv, Modal, Seen
  <2>. QED
    BY <2>1, <2>3, <2>4, <2>5, <2>6 DEF Navigation
<1>19. CASE SaveAnswered
  <2>1. UNCHANGED <<doc, nav, agreed>> /\ work # None /\ work' = None /\ shown \subseteq shown'
    BY <1>19 DEF SaveAnswered, FinishSave, Busy
  <2>2. saved' # None => Seen(saved)'
    BY <1>19, <2>1 DEF SaveAnswered, FinishSave, DraftInv, Seen
  <2>3. QuestionInv'
    BY <2>1 DEF DraftInv, QuestionInv, Modal
  <2>. QED
    BY <2>1, <2>2, <2>3 DEF DraftInv, ReplacingInv, Yielded, Seen
<1>20. CASE OpenAnswered
  <2>1. nav # None /\ nav' = None /\ UNCHANGED <<work, agreed>> /\ shown \subseteq shown'
    BY <1>20 DEF OpenAnswered
  <2>2. saved' # None => Seen(saved)'
    BY <1>20, <2>1 DEF OpenAnswered, DraftInv, Seen
  <2>. QED
    BY <2>1, <2>2 DEF DraftInv, QuestionInv, ReplacingInv, Modal, Seen
<1>21. CASE DeleteAnswered
  <2>1. UNCHANGED <<shown, agreed>> /\ work # None /\ work' = None
    BY <1>21 DEF DeleteAnswered, Busy
  <2>2. (nav' = None /\ saved' = None) \/ UNCHANGED <<doc, saved, nav>>
    BY <1>21 DEF DeleteAnswered, StartUnsaved
  <2>3. QuestionInv'
    BY <2>1, <2>2 DEF DraftInv, QuestionInv, Modal
  <2>. QED
    BY <2>1, <2>2, <2>3 DEF DraftInv, ReplacingInv, Yielded, Seen
<1>22. CASE ReloadAnswered
  <2>1. UNCHANGED <<nav, agreed>> /\ work # None /\ work' = None /\ shown \subseteq shown'
    BY <1>22 DEF ReloadAnswered, Busy
  <2>2. saved' # None => Seen(saved)'
    BY <1>22, <2>1 DEF ReloadAnswered, DraftInv, Seen
  <2>3. QuestionInv'
    BY <2>1 DEF DraftInv, QuestionInv, Modal
  <2>. QED
    BY <2>1, <2>2, <2>3 DEF DraftInv, ReplacingInv, Yielded, Seen
<1>23. CASE ImportSaved
  <2>1. UNCHANGED <<nav, agreed>> /\ work # None /\ work' = None /\ shown \subseteq shown'
    BY <1>23 DEF ImportSaved, Importing, Busy
  <2>2. saved' # None => Seen(saved)'
    BY <1>23, <2>1 DEF ImportSaved, DraftInv, Seen
  <2>3. QuestionInv'
    BY <2>1 DEF DraftInv, QuestionInv, Modal
  <2>. QED
    BY <2>1, <2>2, <2>3 DEF DraftInv, ReplacingInv, Yielded, Seen
<1>24. CASE PollAnswered
  <2>1. UNCHANGED <<nav, work, agreed>> /\ poll # None /\ poll' = None /\ shown \subseteq shown'
    BY <1>24 DEF PollAnswered, Adopt
  <2>2. CASE UNCHANGED <<doc, saved, editing>>
    <3>1. PollStill
      BY <2>1 DEF PollStill
    <3>. QED
      BY <2>1, <2>2, <3>1, DraftCarried
  <2>3. CASE ~ UNCHANGED <<doc, saved, editing>>
    <3>1. poll.current /\ work = None /\ ~Dirty /\ ~editing /\ saved' = [id |-> poll.id, body |-> server[poll.id].body]
          /\ <<poll.id, server[poll.id].body>> \in shown'
      BY <1>24, <2>3 DEF PollAnswered, PollValid, Busy, Adopt
    <3>2. doc' = [id |-> poll.id, body |-> server[poll.id].body] \/ doc' = doc
      BY <1>24, <2>3 DEF PollAnswered, Adopt, Reset
    <3>3. Seen(saved)'
      BY <3>1 DEF Seen
    <3>4. QuestionInv'
      BY <2>1, <3>1, <3>2 DEF DraftInv, QuestionInv, Modal
    <3>5. ReplacingInv'
      BY <2>1, <3>1 DEF DraftInv, ReplacingInv, Yielded, Seen
    <3>. QED
      BY <3>3, <3>4, <3>5 DEF DraftInv
  <2>. QED
    BY <2>2, <2>3
<1>. QED
  BY <1>1, <1>2, <1>3, <1>4, <1>5, <1>6, <1>7, <1>8, <1>9, <1>10, <1>11, <1>12, <1>13, <1>14,
     <1>15, <1>16, <1>17, <1>18, <1>19, <1>20, <1>21, <1>22, <1>23, <1>24
     DEF Next, Answers, Refresh

-----------------------------------------------------------------------------
(* Results.                                                                *)

(* The workspace opens with the first dashboard, shown as it is stored *)
LEMMA InitInv == Init => Inv
<1> SUFFICES ASSUME Init PROVE Inv
  OBVIOUS
<1>1. First \in Ids /\ First \in Existing
  BY WorkspaceAssumption DEF First, Ids
<1>2. 1 \in Bodies /\ 0 \in 0 .. MaxUser /\ 0 \in 0 .. MaxTrouble /\ [body |-> 1,
   ver |-> 1] \in Version
  BY WorkspaceAssumption DEF Bodies, Version
<1>3. server \in Shelf /\ list \in Shelf
  BY <1>2 DEF Init, Shelf
<1>4. doc \in Document /\ saved \in Document
  BY <1>1, <1>2, NewDocument DEF Init
<1>5. TypeInv
  BY <1>2, <1>3, <1>4 DEF Init, TypeInv, CanvasTyped, Revision
<1>6. RevisionInv
  BY <1>1 DEF Init, RevisionInv, OverwritesShown
<1>7. FloorInv
  <2>1. \A i \in Ids : server[i] # None => server[i].ver = 1
    BY DEF Init
  <2>. QED
    BY <2>1 DEF Init, FloorInv, NotOlder
<1>8. DraftInv
  BY <1>4 DEF Init, DraftInv, QuestionInv, ReplacingInv, Modal, Seen
<1>. QED
  BY <1>5, <1>6, <1>7, <1>8 DEF Inv

(* The three invariants together are inductive *)
LEMMA WorkspaceInvariant == Spec => []Inv
<1>1. Inv /\ [Next]_vars => Inv'
  BY TypeStep, RevisionStep, FloorStep, DraftStep DEF Inv
<1>. QED
  BY InitInv, <1>1, PTL DEF Spec

(* The canvas, the library and whatever is pending keep their types, for   *)
(* any dashboards and bounds (InsightsApp's state and refs).               *)
THEOREM WorkspaceTyped == Spec => []TypeOK
<1>1. Inv => TypeOK
  <2> SUFFICES ASSUME TypeInv PROVE TypeOK
    BY DEF Inv
  <2>1. \A i \in Ids : list[i] = None \/ list[i].body \in 0 .. MaxBodies
    BY ShelfFields DEF TypeInv, CanvasTyped, Bodies
  <2>2. nav = None \/ (nav.kind \in {"open", "create", "delete",
     "reload"} /\ nav.phase \in {"confirm", "load"})
    BY DEF TypeInv, CanvasTyped, Navigation
  <2>3. work = None \/ work.kind \in {"save", "delete", "reload", "move", "import"}
    BY OperationFields DEF TypeInv, CanvasTyped
  <2>4. poll \in {None, Overtaken} \/ poll.id \in Ids
    BY RefreshingFields DEF TypeInv, CanvasTyped
  <2>. QED
    BY <2>1, <2>2, <2>3, <2>4 DEF TypeInv, CanvasTyped, TypeOK, Bodies, Revision
<1>. QED
  BY <1>1, WorkspaceInvariant, PTL

(* A save, a move or a delete that carries a revision replaces only a      *)
(* version the console showed, read or wrote (save, moveDashboard,         *)
(* deleteDashboard against useWorkspaceRefresh), whatever is pending.      *)
THEOREM ReplacesWhatWasShown == Spec => []OverwritesShown
<1>1. Inv => OverwritesShown
  BY DEF Inv, RevisionInv
<1>. QED
  BY <1>1, WorkspaceInvariant, PTL

(* No list that was requested before a write of the console brings an      *)
(* older version back into the library (useWorkspaceRefresh).              *)
THEOREM OwnWritesAreKept == Spec => []OwnWritesStay
<1>1. Inv => OwnWritesStay
  <2> SUFFICES ASSUME TypeInv, FloorInv, NEW i \in Ids,
     list[i] # None PROVE list[i].ver >= floor[i]
    BY DEF Inv, OwnWritesStay
  <2>1. list[i].ver \in Nat /\ floor[i] \in Nat /\ floor[i] <= list[i].ver
    BY ShelfFields DEF TypeInv, CanvasTyped, FloorInv, NotOlder
  <2>. QED
    BY <2>1
<1>. QED
  BY <1>1, WorkspaceInvariant, PTL

(* No answer that arrives late takes a draft away (openDashboard,          *)
(* reloadRemoteDashboard, importBundle, useWorkspaceRefresh): a draft that *)
(* is saved nowhere leaves the canvas and its history only if the user     *)
(* agreed, for any interleaving of edits, requests and refreshes.          *)
THEOREM DraftsAreKept == Spec => DraftKept
<1> DEFINE Lost == /\ Dirty /\ <<doc.id, doc.body>> \notin shown
                   /\ doc.body \notin {doc'.body} \cup Range(past') \cup Range(future')
<1>1. ASSUME TypeInv, DraftInv, [Next]_vars, Lost
      PROVE  agreed' \in {<<doc.id, doc.body>>, <<doc.id, None>>}
  <2> USE <1>1 DEF vars, canvas, pending, history, budget
  <2>1. doc \in Document /\ past \in Seq(Bodies) /\ future \in Seq(Bodies) /\ doc.body \in Bodies
    BY DocumentFields DEF TypeInv, CanvasTyped
  <2>2. doc'.body # doc.body
    OBVIOUS
  <2>3. ~Edit /\ ~Redo
    <3>1. past' # Append(past, doc.body)
      BY <2>1, AppendedRange
    <3>. QED
      BY <3>1 DEF Edit, Redo, Updated
  <2>4. ~Undo
    <3>1. future' # <<doc.body>> \o future
      BY <2>1, PrependedRange
    <3>. QED
      BY <3>1 DEF Undo
  <2>5. CASE OpenAnswered
    <3>1. nav # None /\ nav.phase = "load" /\ doc = nav.before /\ UNCHANGED agreed
      BY <2>2, <2>5 DEF OpenAnswered, UnchangedSince
    <3>. QED
      BY <3>1 DEF DraftInv, ReplacingInv, Yielded, Seen
  <2>6. CASE CreateDashboard \/ DuplicateDashboard
    BY <2>2, <2>6 DEF CreateDashboard, DuplicateDashboard, StartUnsaved, Reset
  <2>7. CASE Confirm
    <3>1. nav.kind = "create"
      BY <2>2, <2>7 DEF Confirm, Modal, TypeInv, Navigation
    <3>. QED
      BY <2>7, <3>1 DEF Confirm
  <2>8. CASE DeleteAnswered
    <3>1. work # None /\ work.kind = "delete" /\ work.current /\ UNCHANGED agreed
      BY <2>2, <2>8 DEF DeleteAnswered, Busy
    <3>. QED
      BY <3>1 DEF DraftInv, ReplacingInv
  <2>9. CASE ReloadAnswered
    <3>1. work # None /\ work.kind = "reload" /\ work.current /\ doc = work.before /\ UNCHANGED agreed
      BY <2>2, <2>9 DEF ReloadAnswered, Busy, UnchangedSince
    <3>. QED
      BY <3>1 DEF DraftInv, ReplacingInv, Yielded, Seen
  <2>10. CASE ImportSaved
    <3>1. work # None /\ work.kind = "import" /\ work.id = work.before.id /\ doc = work.before
      BY <2>2, <2>10 DEF ImportSaved, Importing, Busy, UnchangedSince
    <3>. QED
      BY <3>1 DEF DraftInv, ReplacingInv, Seen
  <2>11. CASE PollAnswered
    BY <2>2, <2>11 DEF PollAnswered, Adopt
  <2>12. CASE Save \/ SaveAnswered \/ WriteRefused \/ AnswerLost \/ ToggleEditing
    BY <2>2, <2>12 DEF Save, SaveAnswered, FinishSave, WriteRefused, AnswerLost, WorkFails, ToggleEditing
  <2>13. CASE DeleteDashboard \/ ReloadRemoteDashboard \/ Cancel \/ OpenFails \/ MoveRead \/ MoveAnswered
    BY <2>2, <2>13 DEF DeleteDashboard, ReloadRemoteDashboard, Cancel, OpenFails, MoveRead, MoveAnswered
  <2>14. CASE ImportFails \/ PollStart \/ PollListed \/ PollStops
    BY <2>2, <2>14 DEF ImportFails, WorkFails, PollStart, PollListed, PollStops
  <2>15. ASSUME NEW id \in Ids,
                OpenDashboard(id) \/ MoveDashboard(id) \/ ImportBundle(id) \/ OthersWrite(id) \/ OthersDelete(id)
         PROVE  FALSE
    BY <2>2, <2>15 DEF OpenDashboard, MoveDashboard, ImportBundle, OthersWrite, OthersDelete
  <2>. QED
    BY <2>2, <2>3, <2>4, <2>5, <2>6, <2>7, <2>8, <2>9, <2>10, <2>11, <2>12, <2>13, <2>14, <2>15
       DEF Next, Answers, Refresh
<1>2. Inv /\ [Next]_vars
        => [Dirty /\ doc.body # Blank /\ Held(doc.id) # doc.body /\ <<doc.id, doc.body>> \notin shown
            => \/ doc.body \in {doc'.body} \cup Range(past') \cup Range(future')
               \/ agreed' \in {<<doc.id, doc.body>>, <<doc.id, None>>}]_vars
  BY <1>1 DEF Inv
<1>. QED
  BY <1>2, WorkspaceInvariant, PTL DEF Spec, DraftKept
=============================================================================
