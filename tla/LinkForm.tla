------------------------------ MODULE LinkForm ------------------------------
(***************************************************************************)
(* The form that creates and edits links (useLinkForm.ts), on the page     *)
(* that shows one form at a time, with the handlers of link-admin it       *)
(* calls. Creating a link with its destinations takes one request each;    *)
(* any of them may fail, and the user may cancel the form, which does not  *)
(* stop its requests, delete the link, or open the next form meanwhile.    *)
(*                                                                         *)
(* A destination is the number of its row in the form. Rows without a URL  *)
(* are skipped, and left out; what the fields hold does not matter here.   *)
(***************************************************************************)
EXTENDS Integers, Sequences, FiniteSets

CONSTANTS
    Saves,          \* runs of handleSubmit that may be under way at once
    MaxForms,       \* bounds: forms that are opened,
    MaxLinks,       \* links that are created,
    MaxRows         \* and rows of a form

ASSUME LinkFormAssumption == MaxForms \in Nat /\ MaxLinks \in Nat /\ MaxRows \in Nat

Forms == 1..MaxForms
Links == 1..MaxLinks
None == 0

VARIABLES
    opened,         \* forms opened so far
    current,        \* the form that is shown, or None
    kind, status,   \* form -> what it is for, what has become of it
    rows,           \* rows of the form that is shown
    target,         \* the link it edits
    save,           \* save -> its form, stage, link, rows to add, next row
    link,           \* links: "free", "there" or "deleted"
    posted,         \* link -> rows inserted into link_destinations, in order
    shown,          \* the links of the page's list
    owner, wanted,  \* history: link -> the form and the rows it is made for
    done            \* history: links whose save has come to its end

pageVars == <<opened, current, kind, status, rows, target>>
storeVars == <<link, posted, owner, wanted>>
linkFormVars == <<pageVars, save, storeVars, shown, done>>

Idle == [form |-> None, stage |-> "idle", link |-> None, rows |-> 0, next |-> 1]

FormTypeOK ==
    /\ opened \in 0..MaxForms /\ current \in 0..opened
    /\ kind \in [Forms -> {"none", "create", "edit"}]
    /\ status \in [Forms -> {"none", "open", "saved", "cancelled", "abandoned", "closed"}]
    /\ rows \in 0..MaxRows /\ target \in Links \cup {None}
    /\ save \in [Saves -> [form : 0..opened, stage : {"idle", "create", "add", "update", "write"},
                           link : Links \cup {None}, rows : 0..MaxRows, next : 1..MaxRows + 1]]
    /\ link \in [Links -> {"free", "there", "deleted"}]
    /\ posted \in [Links -> Seq(1..MaxRows)]
    /\ shown \subseteq Links /\ done \subseteq Links
    /\ owner \in [Links -> 0..opened] /\ wanted \in [Links -> 0..MaxRows]
    \* One form is open, and its button starts one save at a time.
    /\ \A f \in Forms : status[f] = "open" <=> f = current
    /\ \A s, t \in Saves : s # t /\ save[s] # Idle => save[s].form # save[t].form

FormInit ==
    /\ opened = 0 /\ current = None
    /\ kind = [f \in Forms |-> "none"] /\ status = [f \in Forms |-> "none"]
    /\ rows = 0 /\ target = None
    /\ save = [s \in Saves |-> Idle]
    /\ link = [l \in Links |-> "free"] /\ posted = [l \in Links |-> <<>>]
    /\ shown = {} /\ done = {}
    /\ owner = [l \in Links |-> None] /\ wanted = [l \in Links |-> 0]

-----------------------------------------------------------------------------
(* The page and the user. *)

Open(what) ==
    /\ current = None /\ opened < MaxForms
    /\ opened' = opened + 1 /\ current' = opened + 1
    /\ kind' = [kind EXCEPT ![opened + 1] = what]
    /\ status' = [status EXCEPT ![opened + 1] = "open"]
    /\ rows' = 0
    /\ UNCHANGED <<save, storeVars, shown, done>>

NewLink == Open("create") /\ target' = None

\* The list may be out of date.
Edit(l) == l \in shown /\ Open("edit") /\ target' = l

\* Also while a save is under way: the fields are not disabled.
EditRows(n) ==
    /\ current # None /\ kind[current] = "create"
    /\ rows' = n
    /\ UNCHANGED <<opened, current, kind, status, target, save, storeVars, shown, done>>

UnderWay(f) == \E s \in Saves : save[s].stage # "idle" /\ save[s].form = f

\* handleClose of the page, however a form comes to call it.
CloseWith(how) ==
    /\ status' = [status EXCEPT ![current] = how]
    /\ current' = None /\ rows' = 0 /\ target' = None
    /\ UNCHANGED <<opened, kind>>

\* The requests of an abandoned form go on.
Cancel ==
    /\ current # None
    /\ CloseWith(IF UnderWay(current) THEN "abandoned" ELSE "cancelled")
    /\ UNCHANGED <<save, storeVars, shown, done>>

\* A mutation that changes links fetches the list again before it returns, and
\* the page does at other times; a fetch that fails leaves the list as it is and
\* the mutation goes on (invalidateQueries), so this is a step of its own.
LoadLinks ==
    /\ shown' = {l \in Links : link[l] = "there"}
    /\ UNCHANGED <<pageVars, save, storeVars, done>>

\* A link that is gone is deleted with success. Destinations go with theirs.
DeleteLink(l) ==
    /\ l \in shown
    /\ link' = [link EXCEPT ![l] = "deleted"]
    /\ UNCHANGED <<pageVars, save, posted, owner, wanted, shown, done>>

-----------------------------------------------------------------------------
(* handleSubmit. *)

Begun(s) ==
    save' = [save EXCEPT ![s] = [
        form |-> current, link |-> target, rows |-> rows, next |-> 1,
        stage |-> IF kind[current] = "create" THEN "create" ELSE "update"]]

\* Mutant: the button does not wait for the destinations.
SubmitAgain(s) ==
    /\ current # None /\ save[s] = Idle
    /\ \A t \in Saves : save[t].form = current => save[t].stage = "add"
    /\ Begun(s)
    /\ UNCHANGED <<pageVars, storeVars, shown, done>>

\* isPending disables the button while one of the three mutations runs. The
\* save works on the fields as they are now.
HandleSubmit(s) ==
    /\ current # None /\ save[s] = Idle
    /\ ~UnderWay(current)
    /\ Begun(s)
    /\ UNCHANGED <<pageVars, storeVars, shown, done>>

\* It throws: the form, if it is still there, shows the error and stays.
Throws(s) ==
    /\ save' = [save EXCEPT ![s] = Idle]
    /\ UNCHANGED <<pageVars, shown, done>>

\* INSERT of a new link.
Inserted(s, l) ==
    /\ save[s].stage = "create" /\ link[l] = "free"
    /\ \A k \in 1..l - 1 : link[k] # "free"
    /\ link' = [link EXCEPT ![l] = "there"]
    /\ owner' = [owner EXCEPT ![l] = save[s].form]
    /\ wanted' = [wanted EXCEPT ![l] = save[s].rows]
    /\ UNCHANGED posted

CreateLink(s, l) ==
    /\ Inserted(s, l)
    /\ save' = [save EXCEPT ![s].stage = "add", ![s].link = l]
    /\ UNCHANGED <<pageVars, shown, done>>

CreateUnanswered(s, l) == Inserted(s, l) /\ Throws(s)

CreateFails(s) ==
    /\ save[s].stage = "create"
    /\ Throws(s)
    /\ UNCHANGED storeVars

\* INSERT of the next row. The link must exist.
RowInserted(s) ==
    LET l == save[s].link IN
    /\ save[s].stage = "add" /\ save[s].next <= save[s].rows
    /\ link[l] = "there"
    /\ posted' = [posted EXCEPT ![l] = Append(@, save[s].next)]
    /\ UNCHANGED <<link, owner, wanted>>

AddDestination(s) ==
    /\ RowInserted(s)
    /\ save' = [save EXCEPT ![s].next = @ + 1]
    /\ UNCHANGED <<pageVars, shown, done>>

AddUnanswered(s) == RowInserted(s) /\ Throws(s)

\* Mutant: a row that fails is skipped.
SkipRow(s) ==
    /\ save[s].stage = "add" /\ save[s].next <= save[s].rows
    /\ save' = [save EXCEPT ![s].next = @ + 1]
    /\ UNCHANGED <<pageVars, storeVars, shown, done>>

AddFails(s) ==
    /\ save[s].stage = "add" /\ save[s].next <= save[s].rows
    /\ Throws(s)
    /\ UNCHANGED storeVars

\* Update reads the link and writes it back; if the link is deleted between
\* the two, the UPDATE changes nothing and reports success.
GetLink(s) ==
    /\ save[s].stage = "update" /\ link[save[s].link] = "there"
    /\ save' = [save EXCEPT ![s].stage = "write"]
    /\ UNCHANGED <<pageVars, storeVars, shown, done>>

UpdateFails(s) ==
    /\ save[s].stage \in {"update", "write"}
    /\ Throws(s)
    /\ UNCHANGED storeVars

\* The last answer is there: onClose closes the form that is shown, which
\* need not be the one that was saved.
Finish(s) ==
    LET f == save[s].form IN
    /\ \/ save[s].stage = "add" /\ save[s].next > save[s].rows /\ done' = done \cup {save[s].link}
       \/ save[s].stage = "write" /\ UNCHANGED done
    /\ save' = [save EXCEPT ![s] = Idle]
    /\ IF current = None
       THEN UNCHANGED pageVars
       ELSE CloseWith(IF f = current THEN "saved" ELSE "closed")
    /\ UNCHANGED <<storeVars, shown>>

-----------------------------------------------------------------------------

Save(s) ==
    \/ \E l \in Links : CreateLink(s, l) \/ CreateUnanswered(s, l)
    \/ CreateFails(s)
    \/ AddDestination(s) \/ AddUnanswered(s) \/ AddFails(s)
    \/ GetLink(s) \/ UpdateFails(s)
    \/ Finish(s)

FormNext ==
    \/ NewLink \/ Cancel \/ LoadLinks
    \/ \E l \in Links : Edit(l) \/ DeleteLink(l)
    \/ \E n \in 0..MaxRows : EditRows(n)
    \/ \E s \in Saves : HandleSubmit(s) \/ Save(s)

FormSpec == FormInit /\ [][FormNext]_linkFormVars

-----------------------------------------------------------------------------
(* Properties. *)

\* A link has the first rows of its form, each once and in order, whatever
\* failed or was unanswered and however often the form was submitted again; it
\* has all of them if the save came to its end, and a form says saved for one
\* link exactly. What is left over of an attempt that failed is a link of its
\* own, not one with a row too many (handleSubmit, Create, AddDestination).
LinksWhole ==
    /\ \A l \in Links :
           /\ posted[l] = [i \in 1..Len(posted[l]) |-> i]
           /\ Len(posted[l]) <= wanted[l]
           /\ l \in done => Len(posted[l]) = wanted[l]
    /\ \A f \in Forms :
           status[f] = "saved" /\ kind[f] = "create" =>
               Cardinality({l \in done : owner[l] = f}) = 1

\* What the user has typed into a form goes away only when he cancels it or
\* its save is done, unless he abandoned an earlier form in the middle of its
\* save: the end of that save closes the form that is shown by then (onClose,
\* handleClose of LinksPage).
FormKept ==
    \A f \in Forms :
        status[f] = "closed" => \E g \in 1..f - 1 : status[g] = "abandoned"

=============================================================================
