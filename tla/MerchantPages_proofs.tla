-------------------------- MODULE MerchantPages_proofs --------------------------
(***************************************************************************)
(* Theorems about a merchant's pages, for any number of activities, loads  *)
(* and mutations under way: a form saves its own activity, and a row that  *)
(* was published stays so.                                                 *)
(***************************************************************************)
EXTENDS MerchantPages, SequenceTheorems, FiniteSetTheorems, TLAPS

Status == {"DRAFT", "PUBLISHED"}
Whats == {"update", "publish", "published", "create", "created"}

BoardType == [loading : BOOLEAN, error : BOOLEAN, items : Seq(Status), publishing : Nat]
BoardLoadType == [n : Nat, served : BOOLEAN, seen : Seq(Status)]
EditorType == [loading : BOOLEAN, error : BOOLEAN, initial : Nat, form : Nat,
               submitting : BOOLEAN, crossed : BOOLEAN]
EditLoadType == [n : Nat, of : Nat]
MutationType == [n : Nat, what : Whats, of : Nat, data : Nat, crossed : BOOLEAN, here : BOOLEAN]

TypesOK ==
  /\ owned \in Seq(Status)
  /\ desk \in Desks
  /\ board \in BoardType
  /\ boardLoads \subseteq BoardLoadType
  /\ editor \in EditorType
  /\ editLoads \subseteq EditLoadType
  /\ creating \in BOOLEAN
  /\ mutations \subseteq MutationType
  /\ overlapped \in BOOLEAN

\* A form is drawn behind no panel, and what it was mounted with was loaded
\* for the address, or an answer has crossed a change of the address.
FormIsOwn ==
  /\ ~editor.loading /\ ~editor.error => editor.initial = desk.id \/ editor.crossed
  /\ editor.form # 0 => /\ ~editor.loading /\ ~editor.error
                        /\ editor.form = desk.id \/ editor.crossed

\* What a list shows or brings as published is published by now.
Published(items) == \A a \in DOMAIN items : items[a] = "PUBLISHED" => owned[a] = "PUBLISHED"
Known(items) == DOMAIN items \subseteq DOMAIN owned
ShowsThePast ==
  /\ Known(board.items) /\ Published(board.items)
  /\ \A l \in boardLoads : Known(l.seen) /\ Published(l.seen)
  /\ \A c \in mutations :
       /\ c.what \in {"publish", "published"} => c.of \in DOMAIN owned
       /\ c.what = "published" => owned[c.of] = "PUBLISHED"

\* Without an overlap one load at most is under way, and its answer knows of
\* every publication the list shows.
NoneOlder ==
  ~overlapped =>
    /\ \A l, m \in boardLoads : l = m
    /\ \A l \in boardLoads : l.served =>
         \A a \in DOMAIN board.items \cap DOMAIN l.seen :
           board.items[a] = "PUBLISHED" => l.seen[a] = "PUBLISHED"

MerchantInductive == TypesOK /\ FormIsOwn /\ SavesItsOwn /\ ShowsThePast /\ NoneOlder
-------------------------------------------------------------------------------
(* Lemmas about the operators of the model.                                *)

LEMMA DrawnType ==
  ASSUME NEW e \in EditorType
  PROVE  Drawn(e) \in EditorType
BY DEF Drawn, EditorType

LEMMA ReloadType ==
  ASSUME NEW e \in EditorType, NEW a \in Nat
  PROVE  Reload(e, a) \in EditorType
BY DEF Reload, EditorType

\* A form that is loaded again is not drawn.
LEMMA ReloadHides ==
  ASSUME NEW e \in EditorType, NEW a \in Nat
  PROVE  /\ Drawn(Reload(e, a)).form = 0
         /\ Drawn(Reload(e, a)).loading \/ Drawn(Reload(e, a)).error
         /\ Drawn([Reload(e, a) EXCEPT !.crossed = FALSE]).form = 0
         /\ \/ Drawn([Reload(e, a) EXCEPT !.crossed = FALSE]).loading
            \/ Drawn([Reload(e, a) EXCEPT !.crossed = FALSE]).error
BY DEF Drawn, Reload, EditorType

LEMMA DeskType ==
  ASSUME NEW d \in Desks
  PROVE  d.id \in Nat /\ d.page \in {"dashboard", "activities", "new", "elsewhere", "edit"}
BY MerchantAssumption DEF Desks

\* Another load of a list, beside those under way.
LEMMA AskedBoard ==
  ASSUME NEW requests, requests \subseteq BoardLoadType, AskBoard(requests)
  PROVE  /\ boardLoads' \subseteq BoardLoadType
         /\ overlapped' \in BOOLEAN
         /\ \A l \in boardLoads' : l \in requests \/ (l.served = FALSE /\ l.seen = <<>>)
         /\ ~overlapped' => requests = {} /\ \A l, m \in boardLoads' : l = m
<1>1. PICK n \in 1..MaxBoardLoads :
        /\ boardLoads' = requests \cup {[n |-> n, served |-> FALSE, seen |-> <<>>]}
        /\ overlapped' = (requests # {})
  BY DEF AskBoard
<1>2. [n |-> n, served |-> FALSE, seen |-> <<>>] \in BoardLoadType
  BY MerchantAssumption DEF BoardLoadType
<1>3. \A l \in boardLoads' : l \in requests \/ (l.served = FALSE /\ l.seen = <<>>)
  BY <1>1
<1>4. ~overlapped' => requests = {} /\ \A l, m \in boardLoads' : l = m
  BY <1>1
<1>5. boardLoads' \subseteq BoardLoadType /\ overlapped' \in BOOLEAN
  BY <1>1, <1>2
<1> QED
  BY <1>3, <1>4, <1>5

LEMMA AskedActivity ==
  ASSUME NEW requests, requests \subseteq EditLoadType, NEW a \in Nat, AskActivity(requests, a)
  PROVE  editLoads' \subseteq EditLoadType
BY MerchantAssumption DEF AskActivity, EditLoadType

\* Another page, or another address: nothing is drawn that was loaded for
\* the last one.
LEMMA Turned ==
  ASSUME MerchantInductive, NEW to \in Desks, NEW under \in SUBSET mutations,
         Turn(to, under), UNCHANGED owned
  PROVE  MerchantInductive'
<1> USE DEF MerchantInductive
<1>1. to.id \in Nat /\ under \subseteq MutationType /\ desk' = to
  BY DeskType DEF Turn, Open, TypesOK
<1>2. NoEditor \in EditorType /\ NoBoard \in BoardType
  BY DEF NoEditor, NoBoard, EditorType, BoardType
<1>3. CASE to.page # desk.page
  <2>1. Open(to, under)
    BY <1>3 DEF Turn
  <2>2. board' = NoBoard /\ creating' = FALSE
    BY <2>1 DEF Open
  <2>3. /\ boardLoads' \subseteq BoardLoadType /\ overlapped' \in BOOLEAN
        /\ \A l \in boardLoads' : l.served = FALSE /\ l.seen = <<>>
        /\ ~overlapped' => \A l, m \in boardLoads' : l = m
    <3>1. CASE to.page \in {"dashboard", "activities"}
      <4>1. AskBoard({})
        BY <2>1, <3>1 DEF Open
      <4> DEFINE none == {}
      <4> HIDE DEF none
      <4>2. none \subseteq BoardLoadType /\ AskBoard(none) /\ \A l : l \notin none
        BY <4>1 DEF none
      <4>3. /\ boardLoads' \subseteq BoardLoadType /\ overlapped' \in BOOLEAN
            /\ \A l \in boardLoads' : l \in none \/ (l.served = FALSE /\ l.seen = <<>>)
        BY <4>2, AskedBoard
      <4>4. ~overlapped' => \A l, m \in boardLoads' : l = m
        BY <4>2, AskedBoard
      <4> QED
        BY <4>2, <4>3, <4>4
    <3>2. CASE to.page \notin {"dashboard", "activities"}
      BY <2>1, <3>2 DEF Open
    <3> QED
      BY <3>1, <3>2
  <2>4. editLoads' \subseteq EditLoadType
    <3>1. CASE to.page = "edit"
      <4>1. AskActivity({}, to.id)
        BY <2>1, <3>1 DEF Open
      <4> QED
        BY <1>1, <4>1, AskedActivity
    <3>2. CASE to.page # "edit"
      BY <2>1, <3>2 DEF Open
    <3> QED
      BY <3>1, <3>2
  <2>5. editor' \in EditorType /\ editor'.form = 0 /\ (editor'.loading \/ editor'.error)
    <3>1. CASE to.page = "edit"
      <4>1. editor' = Drawn(Reload(NoEditor, to.id))
        BY <2>1, <3>1 DEF Open
      <4> QED
        BY <1>1, <1>2, <4>1, DrawnType, ReloadType, ReloadHides
    <3>2. CASE to.page # "edit"
      <4>1. editor' = NoEditor
        BY <2>1, <3>2 DEF Open
      <4> QED
        BY <1>2, <4>1 DEF NoEditor
    <3> QED
      BY <3>1, <3>2
  <2>6. mutations' = {[c EXCEPT !.here = FALSE] : c \in under}
    BY <2>1 DEF Open
  <2>7. mutations' \subseteq MutationType
    BY <1>1, <2>6 DEF MutationType
  <2>8. SavesItsOwn'
    BY <1>1, <2>6 DEF SavesItsOwn, MutationType
  <2>9. ShowsThePast'
    <3>1. /\ board'.items = <<>>
          /\ \A l \in boardLoads' : l.seen = <<>>
      BY <2>2, <2>3 DEF NoBoard
    <3>2. \A c \in mutations' : \E d \in mutations : c.what = d.what /\ c.of = d.of
      BY <1>1, <2>6 DEF MutationType
    <3> QED
      BY <3>1, <3>2 DEF ShowsThePast, Known, Published
  <2>10. TypesOK'
    BY <1>1, <1>2, <2>2, <2>3, <2>4, <2>5, <2>7 DEF TypesOK
  <2>11. FormIsOwn' /\ NoneOlder'
    BY <2>3, <2>5 DEF FormIsOwn, NoneOlder
  <2> QED
    BY <2>8, <2>9, <2>10, <2>11
<1>4. CASE to.page = desk.page
  <2>1. mutations' = under /\ UNCHANGED <<board, boardLoads, creating, overlapped>>
    BY <1>4 DEF Turn
  <2>2. editLoads' \subseteq EditLoadType /\ editor' \in EditorType /\ FormIsOwn'
    <3>1. CASE to.id = desk.id
      <4>1. UNCHANGED <<editor, editLoads>>
        BY <1>4, <3>1 DEF Turn
      <4> QED
        BY <1>1, <3>1, <4>1 DEF FormIsOwn, TypesOK
    <3>2. CASE to.id # desk.id
      <4>1. /\ AskActivity(editLoads, to.id)
            /\ editor' = Drawn([Reload(editor, to.id) EXCEPT !.crossed = FALSE])
        BY <1>4, <3>2 DEF Turn
      <4>2. editLoads' \subseteq EditLoadType
        BY <1>1, <4>1, AskedActivity DEF TypesOK
      <4>3. [Reload(editor, to.id) EXCEPT !.crossed = FALSE] \in EditorType
        BY <1>1, ReloadType DEF TypesOK, EditorType
      <4>4. editor' \in EditorType
        BY <4>1, <4>3, DrawnType
      <4>5. editor'.form = 0 /\ (editor'.loading \/ editor'.error)
        BY <1>1, <4>1, ReloadHides DEF TypesOK
      <4> QED
        BY <4>2, <4>4, <4>5 DEF FormIsOwn
    <3> QED
      BY <3>1, <3>2
  <2>3. TypesOK'
    BY <1>1, <2>1, <2>2 DEF TypesOK
  <2>4. SavesItsOwn' /\ ShowsThePast' /\ NoneOlder'
    BY <2>1 DEF SavesItsOwn, ShowsThePast, Known, Published, NoneOlder
  <2> QED
    BY <2>2, <2>3, <2>4
<1> QED
  BY <1>3, <1>4
-------------------------------------------------------------------------------
(* The steps of the board: only its state and its loads change.            *)

LEMMA BoardStep ==
  ASSUME MerchantInductive, OnBoard
  PROVE  MerchantInductive'
<1> USE DEF MerchantInductive
<1>1. CASE RefreshBoard
  <2>1. /\ board' = [board EXCEPT !.loading = TRUE, !.error = FALSE]
        /\ AskBoard(boardLoads)
        /\ UNCHANGED <<owned, desk, editor, editLoads, creating, mutations>>
    BY <1>1 DEF RefreshBoard, OffBoard
  <2>2. /\ boardLoads' \subseteq BoardLoadType /\ overlapped' \in BOOLEAN
        /\ \A l \in boardLoads' : l \in boardLoads \/ (l.served = FALSE /\ l.seen = <<>>)
        /\ ~overlapped' => boardLoads = {} /\ \A l, m \in boardLoads' : l = m
    BY <2>1, AskedBoard DEF TypesOK
  <2>3. board' \in BoardType /\ board'.items = board.items
    BY <2>1 DEF TypesOK, BoardType
  <2>4. TypesOK' /\ FormIsOwn' /\ SavesItsOwn'
    BY <2>1, <2>2, <2>3 DEF TypesOK, FormIsOwn, SavesItsOwn
  <2>5. ShowsThePast'
    BY <2>1, <2>2, <2>3 DEF ShowsThePast, Known, Published
  <2>6. NoneOlder'
    BY <2>2 DEF NoneOlder
  <2> QED
    BY <2>4, <2>5, <2>6
<1>2. ASSUME NEW l \in boardLoads, BoardServed(l) PROVE MerchantInductive'
  <2> DEFINE answer == [l EXCEPT !.served = TRUE, !.seen = owned]
  <2>1. /\ boardLoads' = (boardLoads \ {l}) \cup {answer}
        /\ UNCHANGED <<owned, desk, board, overlapped, editor, editLoads, creating, mutations>>
    BY <1>2 DEF BoardServed, OffBoard
  <2>2. answer \in BoardLoadType /\ answer.seen = owned
    BY DEF TypesOK, BoardLoadType
  <2>3. TypesOK' /\ FormIsOwn' /\ SavesItsOwn'
    BY <2>1, <2>2 DEF TypesOK, FormIsOwn, SavesItsOwn
  <2>4. ShowsThePast'
    BY <2>1, <2>2 DEF ShowsThePast, Known, Published
  <2>5. \A a \in DOMAIN board.items \cap DOMAIN answer.seen :
          board.items[a] = "PUBLISHED" => answer.seen[a] = "PUBLISHED"
    BY <2>2 DEF ShowsThePast, Known, Published
  <2>6. NoneOlder'
    <3> HIDE DEF answer
    <3> QED BY <2>1, <2>5 DEF NoneOlder
  <2> QED
    BY <2>3, <2>4, <2>6
<1>3. ASSUME NEW l \in boardLoads, BoardArrived(l) PROVE MerchantInductive'
  <2>1. /\ l.served /\ boardLoads' = boardLoads \ {l}
        /\ overlapped' = (overlapped /\ boardLoads' # {})
        /\ board' = [board EXCEPT !.items = l.seen, !.loading = FALSE]
        /\ UNCHANGED <<owned, desk, editor, editLoads, creating, mutations>>
    BY <1>3 DEF BoardArrived, Answered, OffBoard
  <2>2. board' \in BoardType /\ board'.items = l.seen
    BY <2>1 DEF TypesOK, BoardType, BoardLoadType
  <2>3. TypesOK' /\ FormIsOwn' /\ SavesItsOwn'
    BY <2>1, <2>2 DEF TypesOK, FormIsOwn, SavesItsOwn
  <2>4. ShowsThePast'
    BY <2>1, <2>2 DEF ShowsThePast, Known, Published
  <2>5. NoneOlder'
    BY <2>1 DEF NoneOlder
  <2> QED
    BY <2>3, <2>4, <2>5
<1>4. ASSUME NEW l \in boardLoads, BoardFailed(l) PROVE MerchantInductive'
  <2>1. /\ boardLoads' = boardLoads \ {l}
        /\ overlapped' = (overlapped /\ boardLoads' # {})
        /\ board' = [board EXCEPT !.items = <<>>, !.error = TRUE, !.loading = FALSE]
        /\ UNCHANGED <<owned, desk, editor, editLoads, creating, mutations>>
    BY <1>4 DEF BoardFailed, Answered, OffBoard
  <2> DEFINE none == <<>>
  <2>2. none \in Seq(Status)
    OBVIOUS
  <2> HIDE DEF none
  <2>3. board' \in BoardType /\ board'.items = none
    BY <2>1, <2>2 DEF TypesOK, BoardType, none
  <2>4. TypesOK' /\ FormIsOwn' /\ SavesItsOwn'
    BY <2>1, <2>3 DEF TypesOK, FormIsOwn, SavesItsOwn
  <2>5. DOMAIN board'.items = {}
    BY <2>3 DEF none
  <2>6. ShowsThePast'
    BY <2>1, <2>5 DEF ShowsThePast, Known, Published
  <2>7. NoneOlder'
    BY <2>1, <2>5 DEF NoneOlder
  <2> QED
    BY <2>4, <2>6, <2>7
<1>5. ASSUME NEW a \in DOMAIN board.items, Publish(a) PROVE MerchantInductive'
  <2>1. PICK n \in 1..MaxMutations :
          mutations' = mutations \cup {Mutation(n, "publish", a, 0, FALSE)}
    BY <1>5 DEF Publish
  <2>2. /\ board' = [board EXCEPT !.publishing = a]
        /\ UNCHANGED <<owned, desk, boardLoads, editor, editLoads, creating, overlapped>>
    BY <1>5 DEF Publish
  <2>3. a \in Nat
    BY DEF TypesOK, BoardType
  <2>4. board' \in BoardType /\ board'.items = board.items
    BY <2>2, <2>3 DEF TypesOK, BoardType
  <2>5. Mutation(n, "publish", a, 0, FALSE) \in MutationType
    BY <2>3, MerchantAssumption DEF Mutation, MutationType, Whats
  <2>6. TypesOK' /\ FormIsOwn'
    BY <2>1, <2>2, <2>4, <2>5 DEF TypesOK, FormIsOwn
  <2>7. SavesItsOwn'
    BY <2>1 DEF SavesItsOwn, Mutation
  <2>8. ShowsThePast'
    BY <2>1, <2>2, <2>4 DEF ShowsThePast, Known, Published, Mutation
  <2>9. NoneOlder'
    BY <2>2, <2>4 DEF NoneOlder
  <2> QED
    BY <2>6, <2>7, <2>8, <2>9
<1> QED
  BY <1>1, <1>2, <1>3, <1>4, <1>5 DEF OnBoard
-------------------------------------------------------------------------------
(* The steps of the forms.                                                 *)

LEMMA EditorStep ==
  ASSUME MerchantInductive, OnEditor
  PROVE  MerchantInductive'
<1> USE DEF MerchantInductive
<1>0. desk.id \in Nat
  BY DeskType DEF TypesOK
<1>1. CASE ReloadEditor
  <2>1. /\ AskActivity(editLoads, desk.id)
        /\ editor' = Drawn(Reload(editor, desk.id))
        /\ UNCHANGED <<owned, desk, board, boardLoads, creating, overlapped, mutations>>
    BY <1>1 DEF ReloadEditor, OffForm
  <2>2. editLoads' \subseteq EditLoadType
    BY <1>0, <2>1, AskedActivity DEF TypesOK
  <2>3. editor' \in EditorType /\ editor'.form = 0 /\ (editor'.loading \/ editor'.error)
    BY <1>0, <2>1, DrawnType, ReloadType, ReloadHides DEF TypesOK
  <2>4. TypesOK' /\ FormIsOwn'
    BY <2>1, <2>2, <2>3 DEF TypesOK, FormIsOwn
  <2>5. SavesItsOwn' /\ ShowsThePast' /\ NoneOlder'
    BY <2>1 DEF SavesItsOwn, ShowsThePast, Known, Published, NoneOlder
  <2> QED
    BY <2>4, <2>5
<1>2. CASE Update
  <2>1. PICK n \in 1..MaxMutations :
          mutations' = mutations \cup
                         {Mutation(n, "update", desk.id, editor.form, editor.crossed)}
    BY <1>2 DEF Update
  <2>2. /\ editor.form # 0 /\ editor' = [editor EXCEPT !.submitting = TRUE]
        /\ UNCHANGED <<owned, desk, board, boardLoads, creating, overlapped, editLoads>>
    BY <1>2 DEF Update, CanSubmit, OffForm
  <2>3. Mutation(n, "update", desk.id, editor.form, editor.crossed) \in MutationType
    BY <1>0, MerchantAssumption DEF Mutation, MutationType, Whats, TypesOK, EditorType
  <2>4. editor' \in EditorType
    BY <2>2 DEF TypesOK, EditorType
  <2>5. TypesOK' /\ FormIsOwn'
    BY <2>1, <2>2, <2>3, <2>4 DEF TypesOK, FormIsOwn, EditorType
  <2>6. SavesItsOwn'
    BY <2>1, <2>2 DEF SavesItsOwn, FormIsOwn, Mutation
  <2>7. ShowsThePast' /\ NoneOlder'
    BY <2>1, <2>2 DEF ShowsThePast, Known, Published, NoneOlder, Mutation
  <2> QED
    BY <2>5, <2>6, <2>7
<1>3. CASE Create
  <2>1. PICK n \in 1..MaxMutations :
          mutations' = mutations \cup {Mutation(n, "create", 0, 0, FALSE)}
    BY <1>3 DEF Create
  <2>2. /\ creating' = TRUE
        /\ UNCHANGED <<owned, desk, board, boardLoads, editor, editLoads, overlapped>>
    BY <1>3 DEF Create
  <2>3. Mutation(n, "create", 0, 0, FALSE) \in MutationType
    BY MerchantAssumption DEF Mutation, MutationType, Whats
  <2>4. TypesOK' /\ FormIsOwn'
    BY <2>1, <2>2, <2>3 DEF TypesOK, FormIsOwn
  <2>5. SavesItsOwn'
    BY <2>1 DEF SavesItsOwn, Mutation
  <2>6. ShowsThePast' /\ NoneOlder'
    BY <2>1, <2>2 DEF ShowsThePast, Known, Published, NoneOlder, Mutation
  <2> QED
    BY <2>4, <2>5, <2>6
<1>4. ASSUME NEW l \in editLoads, ActivityLoaded(l) PROVE MerchantInductive'
  <2> DEFINE e == [editor EXCEPT !.initial = l.of, !.loading = FALSE,
                                 !.crossed = @ \/ l.of # desk.id]
  <2>1. /\ editLoads' = editLoads \ {l} /\ editor' = Drawn(e)
        /\ UNCHANGED <<owned, desk, board, boardLoads, creating, overlapped, mutations>>
    BY <1>4 DEF ActivityLoaded, OffForm
  <2>2. e \in EditorType
    BY DEF TypesOK, EditorType, EditLoadType
  <2>3. e.initial = desk.id \/ e.crossed
    BY DEF TypesOK, EditorType
  <2>4. e.form # 0 => e.form = desk.id \/ e.crossed
    BY DEF TypesOK, EditorType, FormIsOwn
  <2>5. FormIsOwn'
    BY <2>1, <2>2, <2>3, <2>4 DEF FormIsOwn, Drawn, EditorType
  <2>6. TypesOK'
    BY <2>1, <2>2, DrawnType DEF TypesOK
  <2>7. SavesItsOwn' /\ ShowsThePast' /\ NoneOlder'
    BY <2>1 DEF SavesItsOwn, ShowsThePast, Known, Published, NoneOlder
  <2> QED
    BY <2>5, <2>6, <2>7
<1>5. ASSUME NEW l \in editLoads, LoadFailed(l) PROVE MerchantInductive'
  <2> DEFINE e == [editor EXCEPT !.error = TRUE, !.loading = FALSE]
  <2>1. /\ editLoads' = editLoads \ {l} /\ editor' = Drawn(e)
        /\ UNCHANGED <<owned, desk, board, boardLoads, creating, overlapped, mutations>>
    BY <1>5 DEF LoadFailed, OffForm
  <2>2. e \in EditorType /\ e.error
    BY DEF TypesOK, EditorType
  <2>3. FormIsOwn'
    BY <2>1, <2>2 DEF FormIsOwn, Drawn, EditorType
  <2>4. TypesOK'
    BY <2>1, <2>2, DrawnType DEF TypesOK
  <2>5. SavesItsOwn' /\ ShowsThePast' /\ NoneOlder'
    BY <2>1 DEF SavesItsOwn, ShowsThePast, Known, Published, NoneOlder
  <2> QED
    BY <2>3, <2>4, <2>5
<1> QED
  BY <1>1, <1>2, <1>3, <1>4, <1>5 DEF OnEditor
-------------------------------------------------------------------------------
(* The steps of the server's answers, and the merchant's other tab.        *)

LEMMA MutationStep ==
  ASSUME MerchantInductive, OnMutations
  PROVE  MerchantInductive'
<1> USE DEF MerchantInductive
<1>1. PICK c \in mutations :
        \/ PublishServed(c) \/ PublishArrived(c) \/ PublishFailed(c)
        \/ CreateServed(c) \/ FormArrived(c) \/ FormFailed(c)
  BY DEF OnMutations
<1>2. c \in MutationType
  BY DEF TypesOK
<1>3. CASE PublishServed(c)
  <2> DEFINE answer == [c EXCEPT !.what = "published"]
  <2>1. /\ c.what = "publish"
        /\ owned' = [owned EXCEPT ![c.of] = "PUBLISHED"]
        /\ mutations' = (mutations \ {c}) \cup {answer}
        /\ UNCHANGED <<desk, board, boardLoads, editor, editLoads, creating, overlapped>>
    BY <1>3 DEF PublishServed
  <2>2. answer \in MutationType /\ answer.what = "published" /\ answer.of = c.of
    BY <1>2 DEF MutationType, Whats
  <2>3. c.of \in DOMAIN owned
    BY <2>1 DEF ShowsThePast
  <2>4. owned' \in Seq(Status)
    BY <2>1, <2>3 DEF TypesOK, Status
  <2>5. /\ DOMAIN owned' = DOMAIN owned
        /\ \A a \in DOMAIN owned : owned[a] = "PUBLISHED" => owned'[a] = "PUBLISHED"
        /\ owned'[c.of] = "PUBLISHED"
    BY <2>1, <2>3 DEF TypesOK
  <2>6. TypesOK' /\ FormIsOwn' /\ SavesItsOwn'
    BY <2>1, <2>2, <2>4 DEF TypesOK, FormIsOwn, SavesItsOwn
  <2>7. ShowsThePast'
    <3> HIDE DEF answer
    <3>1. Known(board.items)' /\ Published(board.items)'
      BY <2>1, <2>5 DEF ShowsThePast, Known, Published
    <3>2. \A l \in boardLoads' : Known(l.seen)' /\ Published(l.seen)'
      BY <2>1, <2>5 DEF ShowsThePast, Known, Published
    <3>3. \A d \in mutations' :
            /\ d.what \in {"publish", "published"} => d.of \in DOMAIN owned'
            /\ d.what = "published" => owned'[d.of] = "PUBLISHED"
      BY <2>1, <2>2, <2>3, <2>5 DEF ShowsThePast
    <3> QED
      BY <3>1, <3>2, <3>3 DEF ShowsThePast
  <2>8. NoneOlder'
    BY <2>1 DEF NoneOlder
  <2> QED
    BY <2>6, <2>7, <2>8
<1>4. CASE PublishArrived(c)
  <2>1. /\ c.what = "published" /\ mutations' = mutations \ {c}
        /\ UNCHANGED <<owned, desk, editor, editLoads, creating>>
    BY <1>4 DEF PublishArrived
  <2>2. CASE c.here
    <3> DEFINE items == [a \in DOMAIN board.items |->
                           IF a = c.of THEN "PUBLISHED" ELSE board.items[a]]
    <3>1. /\ board' = [board EXCEPT !.items = items, !.publishing = 0, !.loading = TRUE,
                                    !.error = FALSE]
          /\ AskBoard(boardLoads)
      BY <1>4, <2>2 DEF PublishArrived, TypesOK, BoardType
    <3>2. /\ boardLoads' \subseteq BoardLoadType /\ overlapped' \in BOOLEAN
          /\ \A l \in boardLoads' : l \in boardLoads \/ (l.served = FALSE /\ l.seen = <<>>)
          /\ ~overlapped' => boardLoads = {} /\ \A l, m \in boardLoads' : l = m
      BY <3>1, AskedBoard DEF TypesOK
    <3>3. items \in Seq(Status)
      <4>1. board.items \in Seq(Status)
        BY DEF TypesOK, BoardType
      <4>2. Len(board.items) \in Nat /\ DOMAIN board.items = 1..Len(board.items)
        BY <4>1
      <4>3. \A a \in DOMAIN board.items : items[a] \in Status
        BY <4>1, <4>2 DEF Status
      <4>4. items \in [1..Len(board.items) -> Status]
        BY <4>2, <4>3
      <4> QED
        BY <4>2, <4>4, SeqDef
    <3>4. board' \in BoardType /\ board'.items = items
      BY <3>1, <3>3 DEF TypesOK, BoardType
    <3>5. TypesOK' /\ FormIsOwn' /\ SavesItsOwn'
      BY <2>1, <3>2, <3>4 DEF TypesOK, FormIsOwn, SavesItsOwn
    <3>6. owned[c.of] = "PUBLISHED"
      BY <2>1 DEF ShowsThePast
    <3>7. ShowsThePast'
      BY <2>1, <3>2, <3>4, <3>6 DEF ShowsThePast, Known, Published
    <3>8. NoneOlder'
      BY <3>2 DEF NoneOlder
    <3> QED
      BY <3>5, <3>7, <3>8
  <2>3. CASE ~c.here
    <3>1. UNCHANGED <<board, boardLoads, overlapped>>
      BY <1>4, <2>3 DEF PublishArrived
    <3> QED
      BY <2>1, <3>1 DEF TypesOK, FormIsOwn, SavesItsOwn, ShowsThePast, Known, Published, NoneOlder
  <2> QED
    BY <2>2, <2>3
<1>5. CASE PublishFailed(c)
  <2>1. /\ mutations' = mutations \ {c}
        /\ board' = IF c.here THEN [board EXCEPT !.publishing = 0] ELSE board
        /\ UNCHANGED <<owned, desk, boardLoads, editor, editLoads, creating, overlapped>>
    BY <1>5 DEF PublishFailed
  <2>2. board' \in BoardType /\ board'.items = board.items
    BY <2>1 DEF TypesOK, BoardType
  <2>3. TypesOK' /\ FormIsOwn' /\ SavesItsOwn'
    BY <2>1, <2>2 DEF TypesOK, FormIsOwn, SavesItsOwn
  <2>4. ShowsThePast' /\ NoneOlder'
    BY <2>1, <2>2 DEF ShowsThePast, Known, Published, NoneOlder
  <2> QED
    BY <2>3, <2>4
<1>6. CASE CreateServed(c)
  <2> DEFINE answer == [c EXCEPT !.what = "created"]
  <2>1. /\ c.what = "create"
        /\ owned' = Append(owned, "DRAFT")
        /\ mutations' = (mutations \ {c}) \cup {answer}
        /\ UNCHANGED <<desk, board, boardLoads, editor, editLoads, creating, overlapped>>
    BY <1>6 DEF CreateServed
  <2>2. answer \in MutationType /\ answer.what = "created"
    BY <1>2 DEF MutationType, Whats
  <2>3. /\ owned' \in Seq(Status)
        /\ DOMAIN owned \subseteq DOMAIN owned'
        /\ \A a \in DOMAIN owned : owned'[a] = owned[a]
    BY <2>1 DEF TypesOK, Status
  <2>4. TypesOK' /\ FormIsOwn' /\ SavesItsOwn'
    BY <2>1, <2>2, <2>3 DEF TypesOK, FormIsOwn, SavesItsOwn
  <2>5. ShowsThePast'
    <3> HIDE DEF answer
    <3> QED BY <2>1, <2>2, <2>3 DEF ShowsThePast, Known, Published
  <2>6. NoneOlder'
    BY <2>1 DEF NoneOlder
  <2> QED
    BY <2>4, <2>5, <2>6
<1>7. CASE FormArrived(c)
  <2>1. Desk("activities", 0) \in Desks
    BY DEF Desk, Desks
  <2>2. Turn(Desk("activities", 0), mutations \ {c}) /\ UNCHANGED owned
    BY <1>7 DEF FormArrived
  <2> HIDE DEF MerchantInductive
  <2> QED
    BY <2>1, <2>2, Turned
<1>8. CASE FormFailed(c)
  <2>1. /\ mutations' = mutations \ {c}
        /\ editor' = IF c.here /\ c.what = "update"
                     THEN [editor EXCEPT !.submitting = FALSE] ELSE editor
        /\ creating' \in BOOLEAN
        /\ UNCHANGED <<owned, desk, board, boardLoads, editLoads, overlapped>>
    BY <1>8 DEF FormFailed
  <2>2. editor' \in EditorType
    BY <2>1 DEF TypesOK, EditorType
  <2>3. /\ editor'.loading = editor.loading /\ editor'.error = editor.error
        /\ editor'.initial = editor.initial /\ editor'.form = editor.form
        /\ editor'.crossed = editor.crossed
    BY <2>1 DEF TypesOK, EditorType
  <2>4. TypesOK' /\ FormIsOwn' /\ SavesItsOwn'
    BY <2>1, <2>2, <2>3 DEF TypesOK, FormIsOwn, SavesItsOwn
  <2>5. ShowsThePast' /\ NoneOlder'
    BY <2>1 DEF ShowsThePast, Known, Published, NoneOlder
  <2> QED
    BY <2>4, <2>5
<1> QED
  BY <1>1, <1>3, <1>4, <1>5, <1>6, <1>7, <1>8

LEMMA PublishedElsewhereStep ==
  ASSUME MerchantInductive, NEW a \in DOMAIN owned, PublishedElsewhere(a)
  PROVE  MerchantInductive'
<1> USE DEF MerchantInductive
<1>1. /\ owned' = [owned EXCEPT ![a] = "PUBLISHED"]
      /\ UNCHANGED <<desk, board, boardLoads, editor, editLoads, creating, mutations, overlapped>>
  BY DEF PublishedElsewhere
<1>2. /\ owned' \in Seq(Status) /\ DOMAIN owned' = DOMAIN owned
      /\ \A b \in DOMAIN owned : owned[b] = "PUBLISHED" => owned'[b] = "PUBLISHED"
  BY <1>1 DEF TypesOK, Status
<1>3. TypesOK' /\ FormIsOwn' /\ SavesItsOwn'
  BY <1>1, <1>2 DEF TypesOK, FormIsOwn, SavesItsOwn
<1>4. ShowsThePast' /\ NoneOlder'
  BY <1>1, <1>2 DEF ShowsThePast, Known, Published, NoneOlder
<1> QED
  BY <1>3, <1>4
-------------------------------------------------------------------------------
LEMMA MerchantInductiveInit == MerchantInit => MerchantInductive
<1> SUFFICES ASSUME MerchantInit PROVE MerchantInductive
  OBVIOUS
<1> DEFINE none == <<>>
<1>1. none \in Seq(Status) /\ DOMAIN none = {}
  OBVIOUS
<1> HIDE DEF none
<1>2. owned \in Seq(Status)
  <2>1. MaxOwned \in Nat
    BY MerchantAssumption
  <2>2. \A f \in [1..MaxOwned -> Status] : f \in Seq(Status)
    BY <2>1, SeqDef
  <2> QED
    BY <1>1, <2>2 DEF MerchantInit, Status, none
<1>3. Desk("elsewhere", 0) \in Desks
  BY DEF Desk, Desks
<1>4. NoBoard \in BoardType /\ NoBoard.items = none
  BY <1>1 DEF NoBoard, BoardType, none
<1>5. NoEditor \in EditorType /\ NoEditor.form = 0 /\ NoEditor.loading
  BY DEF NoEditor, EditorType
<1>6. TypesOK /\ FormIsOwn /\ SavesItsOwn
  BY <1>2, <1>3, <1>4, <1>5 DEF MerchantInit, TypesOK, FormIsOwn, SavesItsOwn
<1>7. ShowsThePast /\ NoneOlder
  BY <1>1, <1>4 DEF MerchantInit, ShowsThePast, Known, Published, NoneOlder
<1> QED
  BY <1>6, <1>7 DEF MerchantInductive

LEMMA MerchantInductiveStep ==
  MerchantInductive /\ [MerchantNext]_merchantVars => MerchantInductive'
<1> SUFFICES ASSUME MerchantInductive, [MerchantNext]_merchantVars
             PROVE  MerchantInductive'
  OBVIOUS
<1>1. ASSUME NEW to \in Desks, GoToDesk(to) PROVE MerchantInductive'
  <2>1. Turn(to, mutations) /\ UNCHANGED owned
    BY <1>1 DEF GoToDesk
  <2> QED
    BY <2>1, Turned
<1>2. CASE UNCHANGED merchantVars
  BY <1>2 DEF merchantVars, MerchantInductive, TypesOK, FormIsOwn, SavesItsOwn, ShowsThePast,
              Known, Published, NoneOlder
<1> QED
  BY <1>1, <1>2, BoardStep, EditorStep, MutationStep, PublishedElsewhereStep DEF MerchantNext

(* What the merchant's pages rest on, for any number of activities, loads  *)
(* and mutations: forms show what was loaded for the address, lists show   *)
(* nothing as published that is not, and without an overlap no load is     *)
(* older than what the list shows.                                         *)
THEOREM MerchantPagesInductive == MerchantSpec => []MerchantInductive
BY MerchantInductiveInit, MerchantInductiveStep, PTL DEF MerchantSpec

(* What is saved as an activity was loaded from that activity, unless an   *)
(* answer came after the address had changed (MerchantActivityEdit.tsx).   *)
THEOREM FormsSaveTheirOwn == MerchantSpec => []SavesItsOwn
<1>1. MerchantInductive => SavesItsOwn
  BY DEF MerchantInductive
<1> QED
  BY <1>1, MerchantPagesInductive, PTL

(* One step of the list: the only one that takes a status back is a load's *)
(* answer, and without an overlap that answer knows of the publication.    *)
LEMMA PublishedStaysStep ==
  ASSUME MerchantInductive, [MerchantNext]_merchantVars,
         NEW a \in DOMAIN board.items \cap DOMAIN board'.items,
         board.items[a] = "PUBLISHED", board'.items[a] = "DRAFT"
  PROVE  overlapped
<1> USE DEF MerchantInductive
<1>1. board'.items # board.items /\ board'.items # <<>> /\ board'.items[a] # "PUBLISHED"
  OBVIOUS
<1>2. \A under : \A to \in Desks : ~Turn(to, under)
  BY <1>1 DEF Turn, Open, NoBoard
<1>3. ASSUME NEW l \in boardLoads, BoardArrived(l) PROVE overlapped
  <2>1. l.served /\ board'.items = l.seen
    BY <1>3 DEF BoardArrived, TypesOK, BoardType
  <2> QED
    BY <2>1, <1>1 DEF NoneOlder, TypesOK
<1>4. ASSUME NEW c \in mutations, PublishArrived(c) PROVE FALSE
  <2>1. CASE c.here
    <3>1. board'.items = [b \in DOMAIN board.items |->
                            IF b = c.of THEN "PUBLISHED" ELSE board.items[b]]
      BY <1>4, <2>1 DEF PublishArrived, TypesOK, BoardType
    <3> QED
      BY <1>1, <3>1
  <2>2. CASE ~c.here
    BY <1>1, <1>4, <2>2 DEF PublishArrived
  <2> QED
    BY <2>1, <2>2
<1>5. ~RefreshBoard
  BY <1>1 DEF RefreshBoard, TypesOK, BoardType
<1>6. \A l \in boardLoads : ~BoardServed(l) /\ ~BoardFailed(l)
  BY <1>1 DEF BoardServed, BoardFailed, TypesOK, BoardType
<1>7. \A b \in DOMAIN board.items : ~Publish(b)
  BY <1>1 DEF Publish, TypesOK, BoardType
<1>8. ~OnEditor
  BY <1>1 DEF OnEditor, ReloadEditor, Update, Create, ActivityLoaded, LoadFailed, OffForm
<1>9. \A c \in mutations :
        ~PublishServed(c) /\ ~PublishFailed(c) /\ ~CreateServed(c) /\ ~FormFailed(c)
  BY <1>1 DEF PublishServed, PublishFailed, CreateServed, FormFailed, TypesOK, BoardType
<1>10. \A c \in mutations : ~FormArrived(c)
  BY <1>2 DEF FormArrived, Desk, Desks
<1>11. \A to \in Desks : ~GoToDesk(to)
  BY <1>2 DEF GoToDesk
<1>12. (\A b \in DOMAIN owned : ~PublishedElsewhere(b)) /\ ~UNCHANGED merchantVars
  BY <1>1 DEF PublishedElsewhere, merchantVars
<1> QED
  BY <1>3, <1>4, <1>5, <1>6, <1>7, <1>8, <1>9, <1>10, <1>11, <1>12
     DEF MerchantNext, OnBoard, OnMutations

(* A row shown as published does not fall back to a draft, unless two      *)
(* loads of the list were under way at once (MerchantActivities.tsx).      *)
THEOREM PublishedRowsStay == MerchantSpec => PublishedStays
<1>1. MerchantInductive /\ [MerchantNext]_merchantVars
        => [\A a \in DOMAIN board.items \cap DOMAIN board'.items :
              board.items[a] = "PUBLISHED" /\ board'.items[a] = "DRAFT" => overlapped]_merchantVars
  BY PublishedStaysStep
<1> QED
  BY <1>1, MerchantPagesInductive, PTL DEF MerchantSpec, PublishedStays
-------------------------------------------------------------------------------
(* What the pages say they wait for is under way.                          *)

\* The requests of a form that is still there, of some kinds: one at most,
\* from one page, and the form waits for it.
Sent(requests, kinds) == {c \in requests : c.here /\ c.what \in kinds}
OneSent(requests, kinds, waits, at, page) ==
  /\ waits <=> Sent(requests, kinds) # {}
  /\ \A c, d \in Sent(requests, kinds) : c = d
  /\ Sent(requests, kinds) # {} => at = page

Updates == {"update"}
Creations == {"create", "created"}
FormsWait ==
  /\ OneSent(mutations, Updates, editor.submitting, desk.page, "edit")
  /\ OneSent(mutations, Creations, creating, desk.page, "new")
BoardWaits == board.loading /\ AtBoard => boardLoads # {}
OnlyEdited == editLoads # {} \/ editor.form # 0 => desk.page = "edit"

MerchantWaits == FormsWait /\ BoardWaits /\ OnlyEdited /\ Len(owned) <= MaxOwned

\* Drawing or loading a form again leaves it waiting for its request.
LEMMA DrawnKeeps ==
  ASSUME NEW e \in EditorType, NEW a \in Nat
  PROVE  /\ Drawn(e).submitting = e.submitting
         /\ Drawn(Reload(e, a)).submitting = e.submitting
         /\ Drawn([Reload(e, a) EXCEPT !.crossed = FALSE]).submitting = e.submitting
BY DEF Drawn, Reload, EditorType

\* The form's request is sent.
LEMMA FormIsSent ==
  ASSUME NEW requests, NEW kinds, NEW page, NEW c, OneSent(requests, kinds, FALSE, page, page),
         c.here, c.what \in kinds
  PROVE  OneSent(requests \cup {c}, kinds, TRUE, page, page)
<1>1. Sent(requests, kinds) = {}
  BY DEF OneSent
<1>2. Sent(requests \cup {c}, kinds) = {c}
  BY <1>1 DEF Sent
<1> QED
  BY <1>2 DEF OneSent

\* The form's request is answered or lost.
LEMMA FormIsBack ==
  ASSUME NEW requests, NEW kinds, NEW page, NEW at, NEW waits,
         OneSent(requests, kinds, waits, at, page),
         NEW c \in requests, c.here, c.what \in kinds
  PROVE  OneSent(requests \ {c}, kinds, FALSE, at, page)
<1>1. c \in Sent(requests, kinds)
  BY DEF Sent
<1>2. Sent(requests \ {c}, kinds) = {}
  BY <1>1 DEF OneSent, Sent
<1> QED
  BY <1>2 DEF OneSent

\* A request of another kind, or of a page that is gone, concerns no form.
LEMMA OthersAreSent ==
  ASSUME NEW requests, NEW kinds, NEW c, ~(c.here /\ c.what \in kinds)
  PROVE  /\ Sent(requests \cup {c}, kinds) = Sent(requests, kinds)
         /\ Sent(requests \ {c}, kinds) = Sent(requests, kinds)
BY DEF Sent

\* The same of requests that the server answers.
LEMMA OthersAreServed ==
  ASSUME NEW requests, NEW after, NEW kinds,
         \A c : c.here /\ c.what \in kinds => (c \in after <=> c \in requests)
  PROVE  Sent(after, kinds) = Sent(requests, kinds)
BY DEF Sent

\* Another page, or another address on the same page with the same requests.
LEMMA TurnedWaits ==
  ASSUME MerchantInductive, MerchantWaits, NEW to \in Desks, NEW under \in SUBSET mutations,
         Turn(to, under), UNCHANGED owned,
         to.page = desk.page =>
           /\ Sent(under, Updates) = Sent(mutations, Updates)
           /\ Sent(under, Creations) = Sent(mutations, Creations)
  PROVE  MerchantWaits'
<1>1. to.id \in Nat /\ under \subseteq MutationType /\ desk' = to
  BY DeskType DEF Turn, Open, MerchantInductive, TypesOK
<1>2. NoEditor \in EditorType /\ NoEditor.submitting = FALSE /\ NoEditor.form = 0
  BY DEF NoEditor, EditorType
<1>3. CASE to.page # desk.page
  <2>1. Open(to, under)
    BY <1>3 DEF Turn
  <2>2. mutations' = {[c EXCEPT !.here = FALSE] : c \in under} /\ creating' = FALSE
    BY <2>1 DEF Open
  <2>3. \A c \in mutations' : ~c.here
    BY <1>1, <2>2 DEF MutationType
  <2>4. \A kinds : Sent(mutations', kinds) = {}
    BY <2>3 DEF Sent
  <2>5. editor'.submitting = FALSE /\ editor'.form = 0
    <3>1. CASE to.page = "edit"
      <4>1. editor' = Drawn(Reload(NoEditor, to.id))
        BY <2>1, <3>1 DEF Open
      <4> QED
        BY <1>1, <1>2, <4>1, DrawnKeeps, ReloadHides
    <3>2. CASE to.page # "edit"
      BY <1>2, <2>1, <3>2 DEF Open
    <3> QED
      BY <3>1, <3>2
  <2>6. FormsWait'
    BY <2>2, <2>4, <2>5 DEF FormsWait, OneSent
  <2>7. BoardWaits'
    <3>1. CASE to.page \in {"dashboard", "activities"}
      <4>1. AskBoard({})
        BY <2>1, <3>1 DEF Open
      <4> QED
        BY <4>1 DEF AskBoard, BoardWaits
    <3>2. CASE to.page \notin {"dashboard", "activities"}
      BY <1>1, <3>2 DEF BoardWaits, AtBoard
    <3> QED
      BY <3>1, <3>2
  <2>8. OnlyEdited'
    BY <1>1, <2>1, <2>5 DEF OnlyEdited, Open
  <2> QED
    BY <2>6, <2>7, <2>8 DEF MerchantWaits
<1>4. CASE to.page = desk.page
  <2>1. mutations' = under /\ UNCHANGED <<board, boardLoads, creating, overlapped>>
    BY <1>4 DEF Turn
  <2>2. CASE to.id = desk.id
    <3>1. UNCHANGED <<editor, editLoads>>
      BY <1>4, <2>2 DEF Turn
    <3> QED
      BY <1>1, <1>4, <2>1, <3>1
         DEF MerchantWaits, FormsWait, OneSent, BoardWaits, AtBoard, OnlyEdited
  <2>3. CASE to.id # desk.id
    <3>1. editor' = Drawn([Reload(editor, to.id) EXCEPT !.crossed = FALSE])
      BY <1>4, <2>3 DEF Turn
    <3>2. editor'.submitting = editor.submitting /\ editor'.form = 0
      BY <1>1, <3>1, DrawnKeeps, ReloadHides DEF MerchantInductive, TypesOK
    <3>3. FormsWait' /\ BoardWaits'
      BY <1>1, <1>4, <2>1, <3>2 DEF MerchantWaits, FormsWait, OneSent, BoardWaits, AtBoard
    <3>4. desk.page = "edit"
      BY <1>4, <2>3, DeskType DEF Desks, MerchantInductive, TypesOK
    <3> QED
      BY <1>1, <1>4, <3>3, <3>4 DEF MerchantWaits, OnlyEdited
  <2> QED
    BY <2>2, <2>3
<1> QED
  BY <1>3, <1>4

LEMMA BoardStepWaits ==
  ASSUME MerchantInductive, MerchantWaits, OnBoard
  PROVE  MerchantWaits'
<1> USE DEF MerchantWaits, BoardWaits, AtBoard
<1>0. board \in BoardType
  BY DEF MerchantInductive, TypesOK
<1>1. CASE RefreshBoard
  BY <1>1 DEF RefreshBoard, OffBoard, AskBoard, FormsWait, OneSent, OnlyEdited
<1>2. ASSUME NEW l \in boardLoads, BoardServed(l) PROVE MerchantWaits'
  BY <1>2 DEF BoardServed, OffBoard, FormsWait, OneSent, OnlyEdited
<1>3. ASSUME NEW l \in boardLoads, BoardArrived(l) PROVE MerchantWaits'
  <2>1. ~board'.loading
    BY <1>0, <1>3 DEF BoardArrived, BoardType
  <2> QED
    BY <1>3, <2>1 DEF BoardArrived, OffBoard, FormsWait, OneSent, OnlyEdited
<1>4. ASSUME NEW l \in boardLoads, BoardFailed(l) PROVE MerchantWaits'
  <2>1. ~board'.loading
    BY <1>0, <1>4 DEF BoardFailed, BoardType
  <2> QED
    BY <1>4, <2>1 DEF BoardFailed, OffBoard, FormsWait, OneSent, OnlyEdited
<1>5. ASSUME NEW a \in DOMAIN board.items, Publish(a) PROVE MerchantWaits'
  <2>1. PICK n \in 1..MaxMutations :
          mutations' = mutations \cup {Mutation(n, "publish", a, 0, FALSE)}
    BY <1>5 DEF Publish
  <2>2. /\ Sent(mutations', Updates) = Sent(mutations, Updates)
        /\ Sent(mutations', Creations) = Sent(mutations, Creations)
    BY <2>1, OthersAreSent DEF Mutation, Updates, Creations
  <2>3. board'.loading = board.loading
    BY <1>0, <1>5 DEF Publish, BoardType
  <2> QED
    BY <1>5, <2>2, <2>3 DEF Publish, FormsWait, OneSent, OnlyEdited
<1> QED
  BY <1>1, <1>2, <1>3, <1>4, <1>5 DEF OnBoard

LEMMA EditorStepWaits ==
  ASSUME MerchantInductive, MerchantWaits, OnEditor
  PROVE  MerchantWaits'
<1> USE DEF MerchantWaits
<1>0. editor \in EditorType /\ editLoads \subseteq EditLoadType /\ desk.id \in Nat
  BY DeskType DEF MerchantInductive, TypesOK
<1>1. CASE ReloadEditor
  <2>1. /\ editor' = Drawn(Reload(editor, desk.id)) /\ desk.page = "edit"
        /\ UNCHANGED <<owned, desk, board, boardLoads, creating, mutations>>
    BY <1>1 DEF ReloadEditor, OffForm
  <2>2. editor'.submitting = editor.submitting
    BY <1>0, <2>1, DrawnKeeps
  <2> QED
    BY <2>1, <2>2 DEF FormsWait, OneSent, BoardWaits, AtBoard, OnlyEdited
<1>2. CASE Update
  <2>1. PICK n \in 1..MaxMutations :
          mutations' = mutations \cup
                         {Mutation(n, "update", desk.id, editor.form, editor.crossed)}
    BY <1>2 DEF Update
  <2> DEFINE update == Mutation(n, "update", desk.id, editor.form, editor.crossed)
  <2>2. /\ editor.form # 0 /\ ~editor.submitting
        /\ editor' = [editor EXCEPT !.submitting = TRUE]
        /\ UNCHANGED <<owned, desk, board, boardLoads, creating, overlapped, editLoads>>
    BY <1>2 DEF Update, CanSubmit, OffForm
  <2>3. desk.page = "edit" /\ editor'.submitting = TRUE
    BY <1>0, <2>2 DEF OnlyEdited, EditorType
  <2>4. update.here /\ update.what = "update"
    BY DEF Mutation
  <2> HIDE DEF update
  <2>5. OneSent(mutations, Updates, FALSE, "edit", "edit")
    BY <2>2, <2>3 DEF FormsWait, OneSent
  <2>6. OneSent(mutations', Updates, TRUE, "edit", "edit")
    BY <2>1, <2>4, <2>5, FormIsSent DEF Updates, update
  <2>7. Sent(mutations', Creations) = Sent(mutations, Creations)
    BY <2>1, <2>4, OthersAreSent DEF Creations, update
  <2> QED
    BY <2>2, <2>3, <2>6, <2>7 DEF FormsWait, OneSent, BoardWaits, AtBoard, OnlyEdited
<1>3. CASE Create
  <2>1. PICK n \in 1..MaxMutations :
          mutations' = mutations \cup {Mutation(n, "create", 0, 0, FALSE)}
    BY <1>3 DEF Create
  <2> DEFINE create == Mutation(n, "create", 0, 0, FALSE)
  <2>2. /\ creating' = TRUE /\ ~creating /\ desk.page = "new"
        /\ UNCHANGED <<owned, desk, board, boardLoads, editor, editLoads, overlapped>>
    BY <1>3 DEF Create
  <2>3. create.here /\ create.what = "create"
    BY DEF Mutation
  <2> HIDE DEF create
  <2>4. OneSent(mutations, Creations, FALSE, "new", "new")
    BY <2>2 DEF FormsWait, OneSent
  <2>5. OneSent(mutations', Creations, TRUE, "new", "new")
    BY <2>1, <2>3, <2>4, FormIsSent DEF Creations, create
  <2>6. Sent(mutations', Updates) = Sent(mutations, Updates)
    BY <2>1, <2>3, OthersAreSent DEF Updates, create
  <2> QED
    BY <2>2, <2>5, <2>6 DEF FormsWait, OneSent, BoardWaits, AtBoard, OnlyEdited
<1>4. ASSUME NEW l \in editLoads, ActivityLoaded(l) PROVE MerchantWaits'
  <2> DEFINE e == [editor EXCEPT !.initial = l.of, !.loading = FALSE,
                                 !.crossed = @ \/ l.of # desk.id]
  <2>1. /\ editor' = Drawn(e)
        /\ UNCHANGED <<owned, desk, board, boardLoads, creating, overlapped, mutations>>
    BY <1>4 DEF ActivityLoaded, OffForm
  <2>2. e \in EditorType /\ e.submitting = editor.submitting
    BY <1>0 DEF EditorType, EditLoadType
  <2>3. editor'.submitting = editor.submitting /\ desk.page = "edit"
    BY <1>4, <2>1, <2>2, DrawnKeeps DEF OnlyEdited
  <2> QED
    BY <2>1, <2>3 DEF FormsWait, OneSent, BoardWaits, AtBoard, OnlyEdited
<1>5. ASSUME NEW l \in editLoads, LoadFailed(l) PROVE MerchantWaits'
  <2> DEFINE e == [editor EXCEPT !.error = TRUE, !.loading = FALSE]
  <2>1. /\ editor' = Drawn(e)
        /\ UNCHANGED <<owned, desk, board, boardLoads, creating, overlapped, mutations>>
    BY <1>5 DEF LoadFailed, OffForm
  <2>2. e \in EditorType /\ e.submitting = editor.submitting
    BY <1>0 DEF EditorType
  <2>3. editor'.submitting = editor.submitting /\ desk.page = "edit"
    BY <1>5, <2>1, <2>2, DrawnKeeps DEF OnlyEdited
  <2> QED
    BY <2>1, <2>3 DEF FormsWait, OneSent, BoardWaits, AtBoard, OnlyEdited
<1> QED
  BY <1>1, <1>2, <1>3, <1>4, <1>5 DEF OnEditor

LEMMA MutationStepWaits ==
  ASSUME MerchantInductive, MerchantWaits, OnMutations
  PROVE  MerchantWaits'
<1> USE DEF MerchantWaits
<1>0. /\ editor \in EditorType /\ board \in BoardType /\ mutations \subseteq MutationType
      /\ owned \in Seq(Status)
  BY DEF MerchantInductive, TypesOK
<1>1. PICK c \in mutations :
        \/ PublishServed(c) \/ PublishArrived(c) \/ PublishFailed(c)
        \/ CreateServed(c) \/ FormArrived(c) \/ FormFailed(c)
  BY DEF OnMutations
<1>2. CASE PublishServed(c)
  <2> DEFINE answer == [c EXCEPT !.what = "published"]
  <2>1. /\ c.what = "publish" /\ mutations' = (mutations \ {c}) \cup {answer}
        /\ owned' = [owned EXCEPT ![c.of] = "PUBLISHED"]
        /\ UNCHANGED <<desk, board, boardLoads, editor, editLoads, creating, overlapped>>
    BY <1>2 DEF PublishServed
  <2>2. answer.what = "published"
    BY <1>0 DEF MutationType
  <2> HIDE DEF answer
  <2>3. \A kinds \in {Updates, Creations} : Sent(mutations', kinds) = Sent(mutations, kinds)
    <3>1. \A d : d.what \in Updates \cup Creations => (d \in mutations' <=> d \in mutations)
      BY <2>1, <2>2 DEF Updates, Creations
    <3> QED
      BY <3>1, OthersAreServed
  <2>4. Len(owned') = Len(owned)
    BY <1>0, <2>1
  <2> QED
    BY <2>1, <2>3, <2>4 DEF FormsWait, OneSent, BoardWaits, AtBoard, OnlyEdited
<1>3. CASE PublishArrived(c)
  <2>1. /\ c.what = "published" /\ mutations' = mutations \ {c}
        /\ UNCHANGED <<owned, desk, editor, editLoads, creating>>
    BY <1>3 DEF PublishArrived
  <2>2. \A kinds \in {Updates, Creations} : Sent(mutations', kinds) = Sent(mutations, kinds)
    BY <2>1, OthersAreSent DEF Updates, Creations
  <2>3. BoardWaits'
    BY <1>3, <2>1 DEF PublishArrived, BoardWaits, AtBoard, AskBoard
  <2> QED
    BY <2>1, <2>2, <2>3 DEF FormsWait, OneSent, OnlyEdited
<1>4. CASE PublishFailed(c)
  <2>1. /\ c.what \in {"publish", "published"} /\ mutations' = mutations \ {c}
        /\ UNCHANGED <<owned, desk, boardLoads, editor, editLoads, creating, overlapped>>
    BY <1>4 DEF PublishFailed
  <2>2. \A kinds \in {Updates, Creations} : Sent(mutations', kinds) = Sent(mutations, kinds)
    BY <2>1, OthersAreSent DEF Updates, Creations
  <2>3. board'.loading = board.loading
    BY <1>0, <1>4 DEF PublishFailed, BoardType
  <2> QED
    BY <2>1, <2>2, <2>3 DEF FormsWait, OneSent, BoardWaits, AtBoard, OnlyEdited
<1>5. CASE CreateServed(c)
  <2> DEFINE answer == [c EXCEPT !.what = "created"]
  <2>1. /\ c.what = "create" /\ mutations' = (mutations \ {c}) \cup {answer}
        /\ Len(owned) < MaxOwned /\ owned' = Append(owned, "DRAFT")
        /\ UNCHANGED <<desk, board, boardLoads, editor, editLoads, creating, overlapped>>
    BY <1>5 DEF CreateServed
  <2>2. answer.what = "created" /\ answer.here = c.here
    BY <1>0 DEF MutationType
  <2> HIDE DEF answer
  <2>3. Sent(mutations', Updates) = Sent(mutations, Updates)
    <3>1. \A d : d.what \in Updates => (d \in mutations' <=> d \in mutations)
      BY <2>1, <2>2 DEF Updates
    <3> QED
      BY <3>1, OthersAreServed
  <2>4. OneSent(mutations', Creations, creating, desk.page, "new")
    <3>1. CASE c.here
      <4>1. c \in Sent(mutations, Creations)
        BY <2>1, <3>1 DEF Sent, Creations
      <4>2. Sent(mutations', Creations) = {answer}
        BY <2>1, <2>2, <3>1, <4>1 DEF FormsWait, OneSent, Sent, Creations
      <4> QED
        BY <4>1, <4>2 DEF FormsWait, OneSent
    <3>2. CASE ~c.here
      <4>1. Sent(mutations', Creations) = Sent(mutations, Creations)
        <5>1. \A d : d.here => (d \in mutations' <=> d \in mutations)
          BY <2>1, <2>2, <3>2
        <5> QED
          BY <5>1, OthersAreServed
      <4> QED
        BY <4>1 DEF FormsWait, OneSent
    <3> QED
      BY <3>1, <3>2
  <2>5. Len(owned') <= MaxOwned
    BY <1>0, <2>1, MerchantAssumption DEF Status
  <2> QED
    BY <2>1, <2>3, <2>4, <2>5 DEF FormsWait, OneSent, BoardWaits, AtBoard, OnlyEdited
<1>6. CASE FormArrived(c)
  <2> DEFINE to == Desk("activities", 0)
  <2>1. to \in Desks /\ to.page = "activities"
    BY DEF Desk, Desks
  <2>2. /\ c.what \in {"update", "created"} /\ Turn(to, mutations \ {c}) /\ UNCHANGED owned
    BY <1>6 DEF FormArrived
  <2> HIDE DEF to
  <2>3. c.here => desk.page # "activities"
    <3> SUFFICES ASSUME c.here PROVE desk.page # "activities"
      OBVIOUS
    <3>1. c \in Sent(mutations, Updates) \/ c \in Sent(mutations, Creations)
      BY <2>2 DEF Sent, Updates, Creations
    <3> QED
      BY <3>1 DEF FormsWait, OneSent
  <2>4. to.page = desk.page =>
          /\ Sent(mutations \ {c}, Updates) = Sent(mutations, Updates)
          /\ Sent(mutations \ {c}, Creations) = Sent(mutations, Creations)
    BY <2>1, <2>3, OthersAreSent
  <2> HIDE DEF MerchantWaits
  <2> QED
    BY <2>1, <2>2, <2>4, TurnedWaits
<1>7. CASE FormFailed(c)
  <2>1. /\ c.what \in {"update", "create", "created"} /\ mutations' = mutations \ {c}
        /\ editor' = IF c.here /\ c.what = "update"
                     THEN [editor EXCEPT !.submitting = FALSE] ELSE editor
        /\ creating' = (creating /\ ~(c.here /\ c.what # "update"))
        /\ UNCHANGED <<owned, desk, board, boardLoads, editLoads, overlapped>>
    BY <1>7 DEF FormFailed
  <2>2. OnlyEdited' /\ BoardWaits'
    BY <1>0, <2>1 DEF OnlyEdited, BoardWaits, AtBoard, EditorType
  <2>3. OneSent(mutations', Updates, editor'.submitting, desk.page, "edit")
    <3>1. CASE c.here /\ c.what = "update"
      <4>1. OneSent(mutations \ {c}, Updates, FALSE, desk.page, "edit")
        BY <3>1, FormIsBack DEF FormsWait, Updates
      <4>2. editor'.submitting = FALSE
        BY <1>0, <2>1, <3>1 DEF EditorType
      <4> QED
        BY <2>1, <4>1, <4>2
    <3>2. CASE ~(c.here /\ c.what = "update")
      <4>1. Sent(mutations', Updates) = Sent(mutations, Updates)
        BY <2>1, <3>2, OthersAreSent DEF Updates
      <4> QED
        BY <2>1, <3>2, <4>1 DEF FormsWait, OneSent
    <3> QED
      BY <3>1, <3>2
  <2>4. OneSent(mutations', Creations, creating', desk.page, "new")
    <3>1. CASE c.here /\ c.what # "update"
      <4>1. OneSent(mutations \ {c}, Creations, FALSE, desk.page, "new")
        BY <2>1, <3>1, FormIsBack DEF FormsWait, Creations
      <4> QED
        BY <2>1, <3>1, <4>1 DEF OneSent
    <3>2. CASE ~(c.here /\ c.what # "update")
      <4>1. Sent(mutations', Creations) = Sent(mutations, Creations)
        BY <2>1, <3>2, OthersAreSent DEF Creations
      <4> QED
        BY <2>1, <3>2, <4>1 DEF FormsWait, OneSent
    <3> QED
      BY <3>1, <3>2
  <2> QED
    BY <2>1, <2>2, <2>3, <2>4 DEF FormsWait
<1> QED
  BY <1>1, <1>2, <1>3, <1>4, <1>5, <1>6, <1>7

LEMMA MerchantWaitsInit == MerchantInit => MerchantWaits
<1> SUFFICES ASSUME MerchantInit PROVE MerchantWaits
  OBVIOUS
<1>1. editor.submitting = FALSE /\ editor.form = 0
  BY DEF MerchantInit, NoEditor
<1>2. desk.page = "elsewhere"
  BY DEF MerchantInit, Desk
<1>3. \A kinds : Sent(mutations, kinds) = {}
  BY DEF MerchantInit, Sent
<1>4. FormsWait /\ BoardWaits /\ OnlyEdited
  BY <1>1, <1>2, <1>3 DEF MerchantInit, FormsWait, OneSent, BoardWaits, AtBoard, OnlyEdited
<1>5. Len(owned) <= MaxOwned
  <2>1. CASE owned = <<>>
    BY <2>1, MerchantAssumption
  <2>2. CASE owned \in [1..MaxOwned -> Status]
    <3>1. DOMAIN owned = 1..MaxOwned /\ owned \in Seq(Status)
      BY <2>2, MerchantAssumption, SeqDef
    <3>2. Len(owned) = MaxOwned
      BY <3>1, MerchantAssumption, LenProperties
    <3> QED
      BY <3>2, MerchantAssumption
  <2> QED
    BY <2>1, <2>2 DEF MerchantInit, Status
<1> QED
  BY <1>4, <1>5 DEF MerchantWaits

LEMMA MerchantWaitsStep ==
  MerchantInductive /\ MerchantWaits /\ [MerchantNext]_merchantVars => MerchantWaits'
<1> SUFFICES ASSUME MerchantInductive, MerchantWaits, [MerchantNext]_merchantVars
             PROVE  MerchantWaits'
  OBVIOUS
<1>1. ASSUME NEW to \in Desks, GoToDesk(to) PROVE MerchantWaits'
  <2>1. Turn(to, mutations) /\ UNCHANGED owned
    BY <1>1 DEF GoToDesk
  <2> QED
    BY <2>1, TurnedWaits
<1>2. ASSUME NEW a \in DOMAIN owned, PublishedElsewhere(a) PROVE MerchantWaits'
  <2>1. /\ owned' = [owned EXCEPT ![a] = "PUBLISHED"]
        /\ UNCHANGED <<desk, board, boardLoads, editor, editLoads, creating, mutations>>
    BY <1>2 DEF PublishedElsewhere
  <2>2. Len(owned') = Len(owned)
    BY <2>1 DEF MerchantInductive, TypesOK
  <2> QED
    BY <2>1, <2>2 DEF MerchantWaits, FormsWait, OneSent, BoardWaits, AtBoard, OnlyEdited
<1>3. CASE UNCHANGED merchantVars
  BY <1>3 DEF merchantVars, MerchantWaits, FormsWait, OneSent, BoardWaits, AtBoard, OnlyEdited
<1> QED
  BY <1>1, <1>2, <1>3, BoardStepWaits, EditorStepWaits, MutationStepWaits DEF MerchantNext

\* The drafts and the published of a list are all of it.
LEMMA FiguresAddUp ==
  ASSUME NEW items \in Seq(Status)
  PROVE  Cardinality({a \in DOMAIN items : items[a] = "PUBLISHED"})
           + Cardinality({a \in DOMAIN items : items[a] = "DRAFT"}) = Len(items)
<1> DEFINE published == {a \in DOMAIN items : items[a] = "PUBLISHED"}
           drafts == {a \in DOMAIN items : items[a] = "DRAFT"}
<1>1. /\ Len(items) \in Nat /\ DOMAIN items = 1..Len(items)
      /\ \A a \in DOMAIN items : items[a] \in Status
  OBVIOUS
<1>2. published \cup drafts = 1..Len(items) /\ published \cap drafts = {}
  BY <1>1 DEF Status
<1> HIDE DEF published, drafts
<1>3. IsFiniteSet(1..Len(items)) /\ Cardinality(1..Len(items)) = Len(items)
  BY <1>1, FS_Interval
<1>4. published \in SUBSET (1..Len(items)) /\ drafts \in SUBSET (1..Len(items))
  BY <1>2
<1>5. IsFiniteSet(published) /\ IsFiniteSet(drafts)
  BY <1>3, <1>4, FS_Subset
<1>6. Cardinality(published \cup drafts)
        = Cardinality(published) + Cardinality(drafts) - Cardinality(published \cap drafts)
  BY <1>5, FS_Union
<1>7. Cardinality(published \cap drafts) = 0
  BY <1>2, FS_EmptySet
<1>8. Cardinality(published) \in Nat /\ Cardinality(drafts) \in Nat
  BY <1>5, FS_CardinalityType
<1>9. Cardinality(published \cup drafts) = Len(items)
  BY <1>2, <1>3
<1>10. Cardinality(published) + Cardinality(drafts) = Len(items)
  BY <1>6, <1>7, <1>8, <1>9
<1> QED
  BY <1>10 DEF published, drafts

\* Of loads that are all the same, there is one at most.
LEMMA OneAtMost ==
  ASSUME NEW requests, \A l, m \in requests : l = m
  PROVE  ~(Cardinality(requests) > 1)
<1>1. CASE requests = {}
  BY <1>1, FS_EmptySet
<1>2. CASE requests # {}
  <2>1. PICK l \in requests : TRUE
    BY <1>2
  <2>2. requests = {l}
    BY <2>1
  <2> QED
    BY <2>2, FS_Singleton
<1> QED
  BY <1>1, <1>2

(* A merchant's page is loading, or a form of it is sent, exactly when the *)
(* request it says it waits for is under way, and each waits for one only; *)
(* the figures of the dashboard add up to the list (MerchantDashboard.tsx, *)
(* MerchantActivityNew.tsx, MerchantActivityEdit.tsx).                     *)
THEOREM FormsWaitForTheirOwn == MerchantSpec => []MerchantTypeOK
<1>1. MerchantInductive /\ MerchantWaits => MerchantTypeOK
  <2> SUFFICES ASSUME MerchantInductive, MerchantWaits PROVE MerchantTypeOK
    OBVIOUS
  <2>1. desk \in Desks /\ Len(owned) <= MaxOwned
    BY DEF MerchantInductive, TypesOK, MerchantWaits
  <2>2. Stats.published + Stats.draft = Len(board.items)
    BY FiguresAddUp DEF Stats, MerchantInductive, TypesOK, BoardType
  <2>3. Cardinality(boardLoads) > 1 => overlapped
    BY OneAtMost DEF MerchantInductive, NoneOlder
  <2>4. board.loading /\ AtBoard => boardLoads # {}
    BY DEF MerchantWaits, BoardWaits
  <2>5. editor.submitting <=> \E c \in mutations : c.here /\ c.what = "update"
    <3>1. editor.submitting <=> Sent(mutations, Updates) # {}
      BY DEF MerchantWaits, FormsWait, OneSent
    <3> QED
      BY <3>1 DEF Sent, Updates
  <2>6. creating <=> \E c \in mutations : c.here /\ c.what \in {"create", "created"}
    <3>1. creating <=> Sent(mutations, Creations) # {}
      BY DEF MerchantWaits, FormsWait, OneSent
    <3> QED
      BY <3>1 DEF Sent, Creations
  <2> QED
    BY <2>1, <2>2, <2>3, <2>4, <2>5, <2>6 DEF MerchantTypeOK
<1> QED
  BY <1>1, MerchantPagesInductive, MerchantWaitsInit, MerchantWaitsStep, PTL DEF MerchantSpec
===============================================================================
