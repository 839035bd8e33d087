----------------------------- MODULE MerchantPages -----------------------------
(***************************************************************************)
(* One tab of a merchant: the dashboard and the list of own activities     *)
(* (MerchantDashboard.tsx, MerchantActivities.tsx), the form for a new one *)
(* (MerchantActivityNew.tsx) and the form that changes one                 *)
(* (MerchantActivityEdit.tsx).                                             *)
(*                                                                         *)
(* No load of these pages is dropped when another follows: whichever       *)
(* answer is last decides.  A form keeps the values it was mounted with,   *)
(* and it is saved under the id of the address.  Activities are known by   *)
(* numbers; of their data a form has, all that matters is whose they are.  *)
(* The draft typed into a form, and its validation, change nothing here.   *)
(***************************************************************************)
EXTENDS Naturals, Sequences, FiniteSets

CONSTANTS MaxOwned,      \* bound: activities of the merchant
          MaxBoardLoads, \* bound: loads of one page under way at once
          MaxMutations   \* bound: creations, updates and publications under way

ASSUME MerchantAssumption ==
  /\ MaxOwned \in Nat \ {0} /\ MaxBoardLoads \in Nat \ {0} /\ MaxMutations \in Nat \ {0}

VARIABLES
  owned,      \* server: the statuses of the merchant's activities
  desk,       \* the address: [page, id], id 0 for one that is no number
  board,      \* dashboard or list: [loading, error, items, publishing]
  boardLoads, \* its loads under way: [n, served, seen]
  editor,     \* edit page: [loading, error, initial, form, submitting, crossed]
  editLoads,  \* its loads under way: [n, of]
  creating,   \* the form for a new activity waits for its answer
  mutations,  \* [n, what, of, data, crossed, here], not here after the page is gone
  overlapped  \* history: since a moment with no load of the board under way,
              \* two were at once

merchantVars ==
  <<owned, desk, board, boardLoads, editor, editLoads, creating, mutations, overlapped>>

Desks == {[page |-> p, id |-> 0] : p \in {"dashboard", "activities", "new", "elsewhere"}}
         \cup {[page |-> "edit", id |-> a] : a \in 0..MaxOwned}
Desk(p, a) == [page |-> p, id |-> a]
Numbered(requests, n) == n \notin {r.n : r \in requests}
-------------------------------------------------------------------------------
(* What the pages show.                                                    *)

NoBoard == [loading |-> TRUE, error |-> FALSE, items |-> <<>>, publishing |-> 0]
NoEditor == [loading |-> TRUE, error |-> FALSE, initial |-> 0, form |-> 0,
             submitting |-> FALSE, crossed |-> FALSE]

\* The panels of loading, error and no activity come before the table.
Table == IF desk.page = "activities" /\ ~board.loading /\ ~board.error
         THEN DOMAIN board.items ELSE {}
\* The dashboard's figures, and the activities it links to.
Stats == [published |-> Cardinality({a \in DOMAIN board.items : board.items[a] = "PUBLISHED"}),
          draft |-> Cardinality({a \in DOMAIN board.items : board.items[a] = "DRAFT"})]
Overview == IF desk.page = "dashboard" /\ ~board.loading /\ ~board.error
            THEN DOMAIN board.items ELSE {}
CanPublish(a) == a \in Table /\ board.items[a] = "DRAFT" /\ board.publishing # a

\* The form is there behind no panel; it keeps what it was mounted with.
Drawn(e) ==
  [e EXCEPT !.form = IF e.loading \/ e.error THEN 0 ELSE IF @ = 0 THEN e.initial ELSE @]
\* Faulty variant: the form stays while the next activity is loaded.
ReloadQuietly(e, a) == [e EXCEPT !.loading = @ /\ a # 0, !.error = (a = 0)]
\* loadActivity up to its request, for the activity of the address.
Reload(e, a) == [e EXCEPT !.loading = (a # 0), !.error = (a = 0)]
-------------------------------------------------------------------------------
(* Moving about.                                                           *)

AskBoard(requests) ==
  \E n \in 1..MaxBoardLoads :
    /\ Numbered(requests, n)
    /\ boardLoads' = requests \cup {[n |-> n, served |-> FALSE, seen |-> <<>>]}
    /\ overlapped' = (requests # {})
AskActivity(requests, a) ==
  IF a = 0 THEN editLoads' = requests
  ELSE \E n \in 1..MaxBoardLoads :
         /\ Numbered(requests, n)
         /\ editLoads' = requests \cup {[n |-> n, of |-> a]}

\* Another page: the state and the loads of the last one are gone.
Open(to, under) ==
  /\ desk' = to /\ board' = NoBoard /\ creating' = FALSE
  /\ IF to.page \in {"dashboard", "activities"} THEN AskBoard({})
     ELSE boardLoads' = {} /\ overlapped' = FALSE
  /\ IF to.page = "edit" THEN AskActivity({}, to.id) ELSE editLoads' = {}
  /\ editor' = IF to.page = "edit" THEN Drawn(Reload(NoEditor, to.id)) ELSE NoEditor
  /\ mutations' = {[c EXCEPT !.here = FALSE] : c \in under}

\* The edit page for another id is the same component, and so is the list
\* when a form leads to it.
Turn(to, under) ==
  IF to.page # desk.page THEN Open(to, under)
  ELSE /\ desk' = to /\ mutations' = under
       /\ IF to.id = desk.id THEN UNCHANGED <<editor, editLoads>>
          ELSE /\ AskActivity(editLoads, to.id)
               /\ editor' = Drawn([Reload(editor, to.id) EXCEPT !.crossed = FALSE])
       /\ UNCHANGED <<board, boardLoads, creating, overlapped>>

\* Links of the header and of the pages, or the browser's history.
GoToDesk(to) == to # desk /\ Turn(to, mutations) /\ UNCHANGED owned
-------------------------------------------------------------------------------
(* The dashboard and the list.                                             *)

AtBoard == desk.page \in {"dashboard", "activities"}
OffBoard == UNCHANGED <<owned, desk, editor, editLoads, creating, mutations>>

\* The refresh button, the retry of the error panel, or another language.
RefreshBoard ==
  /\ AtBoard
  /\ board' = [board EXCEPT !.loading = TRUE, !.error = FALSE]
  /\ AskBoard(boardLoads) /\ OffBoard
BoardServed(l) ==
  /\ ~l.served
  /\ boardLoads' = (boardLoads \ {l}) \cup {[l EXCEPT !.served = TRUE, !.seen = owned]}
  /\ UNCHANGED <<board, overlapped>> /\ OffBoard
Answered(l) == boardLoads' = boardLoads \ {l} /\ overlapped' = (overlapped /\ boardLoads' # {})
\* Success takes no error back that another load has reported meanwhile.
BoardArrived(l) ==
  /\ l.served /\ Answered(l)
  /\ board' = [board EXCEPT !.items = l.seen, !.loading = FALSE]
  /\ OffBoard
BoardFailed(l) ==
  /\ Answered(l)
  /\ board' = [board EXCEPT !.items = <<>>, !.error = TRUE, !.loading = FALSE]
  /\ OffBoard

Mutation(n, what, a, data, crossed) ==
  [n |-> n, what |-> what, of |-> a, data |-> data, crossed |-> crossed, here |-> TRUE]
\* One id remembers what is being published: another row's press forgets it.
Publish(a) ==
  /\ CanPublish(a)
  /\ board' = [board EXCEPT !.publishing = a]
  /\ \E n \in 1..MaxMutations :
       /\ Numbered(mutations, n)
       /\ mutations' = mutations \cup {Mutation(n, "publish", a, 0, FALSE)}
  /\ UNCHANGED <<owned, desk, boardLoads, editor, editLoads, creating, overlapped>>
PublishServed(c) ==
  /\ c.what = "publish"
  /\ owned' = [owned EXCEPT ![c.of] = "PUBLISHED"]
  /\ mutations' = (mutations \ {c}) \cup {[c EXCEPT !.what = "published"]}
  /\ UNCHANGED <<desk, board, boardLoads, editor, editLoads, creating, overlapped>>
\* Faulty variant: the row shows the answer, and that is all.
PublishShown(c) ==
  /\ c.what = "published" /\ mutations' = mutations \ {c}
  /\ board' = IF c.here
              THEN [board EXCEPT !.items = [a \in DOMAIN @ |->
                                   IF a = c.of THEN "PUBLISHED" ELSE @[a]],
                                 !.publishing = 0]
              ELSE board
  /\ UNCHANGED <<owned, desk, boardLoads, editor, editLoads, creating, overlapped>>
\* The row shows the answer at once, and the list is loaded again.
PublishArrived(c) ==
  /\ c.what = "published" /\ mutations' = mutations \ {c}
  /\ IF c.here
     THEN /\ board' = [board EXCEPT !.items = [a \in DOMAIN @ |->
                                       IF a = c.of THEN "PUBLISHED" ELSE @[a]],
                                    !.publishing = 0, !.loading = TRUE, !.error = FALSE]
          /\ AskBoard(boardLoads)
     ELSE UNCHANGED <<board, boardLoads, overlapped>>
  /\ UNCHANGED <<owned, desk, editor, editLoads, creating>>
\* Refused, or the answer is lost: nothing is loaded again.
PublishFailed(c) ==
  /\ c.what \in {"publish", "published"} /\ mutations' = mutations \ {c}
  /\ board' = IF c.here THEN [board EXCEPT !.publishing = 0] ELSE board
  /\ UNCHANGED <<owned, desk, boardLoads, editor, editLoads, creating, overlapped>>
-------------------------------------------------------------------------------
(* The two forms.                                                          *)

OffForm == UNCHANGED <<owned, desk, board, boardLoads, creating, overlapped>>

\* The retry of the error panel, or another language.
ReloadEditor ==
  /\ desk.page = "edit"
  /\ AskActivity(editLoads, desk.id)
  /\ editor' = Drawn(Reload(editor, desk.id))
  /\ OffForm /\ UNCHANGED mutations
\* Whichever activity the answer is about.
ActivityLoaded(l) ==
  /\ editLoads' = editLoads \ {l}
  /\ editor' = Drawn([editor EXCEPT !.initial = l.of, !.loading = FALSE,
                                    !.crossed = @ \/ l.of # desk.id])
  /\ OffForm /\ UNCHANGED mutations
LoadFailed(l) ==
  /\ editLoads' = editLoads \ {l}
  /\ editor' = Drawn([editor EXCEPT !.error = TRUE, !.loading = FALSE])
  /\ OffForm /\ UNCHANGED mutations

\* The fields and the button of the form: disabled while it is sent.
CanSubmit == editor.form # 0 /\ ~editor.submitting
\* A form that is valid is sent for the activity of the address.
Update ==
  /\ CanSubmit
  /\ editor' = [editor EXCEPT !.submitting = TRUE]
  /\ \E n \in 1..MaxMutations :
       /\ Numbered(mutations, n)
       /\ mutations' = mutations
            \cup {Mutation(n, "update", desk.id, editor.form, editor.crossed)}
  /\ OffForm /\ UNCHANGED editLoads
Create ==
  /\ desk.page = "new" /\ ~creating /\ creating' = TRUE
  /\ \E n \in 1..MaxMutations :
       /\ Numbered(mutations, n)
       /\ mutations' = mutations \cup {Mutation(n, "create", 0, 0, FALSE)}
  /\ UNCHANGED <<owned, desk, board, boardLoads, editor, editLoads, overlapped>>
CreateServed(c) ==
  /\ c.what = "create" /\ Len(owned) < MaxOwned
  /\ owned' = Append(owned, "DRAFT")
  /\ mutations' = (mutations \ {c}) \cup {[c EXCEPT !.what = "created"]}
  /\ UNCHANGED <<desk, board, boardLoads, editor, editLoads, creating, overlapped>>
\* Either leads the tab to the list, from wherever it is by now.
FormArrived(c) ==
  /\ c.what \in {"update", "created"}
  /\ Turn(Desk("activities", 0), mutations \ {c})
  /\ UNCHANGED owned
FormFailed(c) ==
  /\ c.what \in {"update", "create", "created"} /\ mutations' = mutations \ {c}
  /\ editor' = IF c.here /\ c.what = "update" THEN [editor EXCEPT !.submitting = FALSE] ELSE editor
  /\ creating' = (creating /\ ~(c.here /\ c.what # "update"))
  /\ UNCHANGED <<owned, desk, board, boardLoads, editLoads, overlapped>>

\* The merchant publishes in another tab.
PublishedElsewhere(a) ==
  /\ owned[a] = "DRAFT" /\ owned' = [owned EXCEPT ![a] = "PUBLISHED"]
  /\ UNCHANGED <<desk, board, boardLoads, editor, editLoads, creating, mutations, overlapped>>
-------------------------------------------------------------------------------
MerchantInit ==
  /\ owned \in [1..MaxOwned -> {"DRAFT", "PUBLISHED"}] \cup {<<>>}
  /\ desk = Desk("elsewhere", 0) /\ board = NoBoard /\ boardLoads = {}
  /\ editor = NoEditor /\ editLoads = {} /\ creating = FALSE
  /\ mutations = {} /\ overlapped = FALSE

OnBoard ==
  \/ RefreshBoard
  \/ \E l \in boardLoads : BoardServed(l) \/ BoardArrived(l) \/ BoardFailed(l)
  \/ \E a \in DOMAIN board.items : Publish(a)
OnEditor ==
  \/ ReloadEditor \/ Update \/ Create
  \/ \E l \in editLoads : (l.of \in DOMAIN owned /\ ActivityLoaded(l)) \/ LoadFailed(l)
OnMutations ==
  \E c \in mutations :
    \/ PublishServed(c) \/ PublishArrived(c) \/ PublishFailed(c)
    \/ CreateServed(c) \/ FormArrived(c) \/ FormFailed(c)
MerchantNext ==
  \/ \E to \in Desks : GoToDesk(to)
  \/ OnBoard \/ OnEditor \/ OnMutations
  \/ \E a \in DOMAIN owned : PublishedElsewhere(a)

MerchantSpec == MerchantInit /\ [][MerchantNext]_merchantVars
-------------------------------------------------------------------------------
(* Correctness.                                                            *)

MerchantTypeOK ==
  /\ desk \in Desks /\ Len(owned) <= MaxOwned
  /\ Stats.published + Stats.draft = Len(board.items)
  /\ Cardinality(boardLoads) > 1 => overlapped
  /\ (board.loading /\ AtBoard) => boardLoads # {}
  /\ editor.submitting <=> \E c \in mutations : c.here /\ c.what = "update"
  /\ creating <=> \E c \in mutations : c.here /\ c.what \in {"create", "created"}

(* What is saved as an activity was loaded from that activity, however the *)
(* history leads from one edit page to another, unless an answer about     *)
(* another activity came after the address had changed (loadActivity drops *)
(* no answer).                                                             *)
SavesItsOwn ==
  \A c \in mutations : c.what = "update" => c.data = c.of \/ c.crossed

(* An activity the list shows as published does not fall back to a draft,  *)
(* whatever was asked before it was published, unless two loads of the     *)
(* list were under way at once (load drops no answer).                     *)
PublishedStays ==
  [][\A a \in DOMAIN board.items \cap DOMAIN board'.items :
       board.items[a] = "PUBLISHED" /\ board'.items[a] = "DRAFT" => overlapped]_merchantVars
===============================================================================
