------------------------------ MODULE Fragments -----------------------------
(***************************************************************************)
(* The library of text fragments (domains/fragments): one fragment with    *)
(* its versions and its references from bid tasks.  add_version with a     *)
(* file awaits the file service between reading the fragment and saving it. *)
(***************************************************************************)
EXTENDS Integers, FiniteSets, SequencesExt

CONSTANTS
  Contents,    \* texts of the fragment
  NoText,      \* the empty text
  Requests,    \* suspended requests (bound)
  MaxFragVersion,  \* changes of the fragment (bound)
  MaxRefs,     \* references (bound)
  NoCopy       \* an idle request

ASSUME FragmentAssumption ==
  /\ NoText \notin Contents
  /\ MaxFragVersion \in Nat \ {0} /\ MaxRefs \in Nat

VARIABLES
  fragment,   \* the stored fragment
  history,    \* its versions, in the order they were saved
  references, \* how many references were saved
  renewal     \* suspended add_version requests

fragVars == <<fragment, history, references, renewal>>

Text == Contents \cup {NoText}
Fragment == [text : Text, source : BOOLEAN, uses : 0..MaxRefs,
             version : 0..MaxFragVersion, deleted : BOOLEAN]
Version == [number : Nat, text : Text, source : BOOLEAN]

(* A renewal: the fragment as it was read, and the text of the request,    *)
(* if it carries one.                                                       *)
Addition == [copy : Fragment, text : Text, given : BOOLEAN]

NoFragment == [text |-> NoText, source |-> FALSE, uses |-> 0, version |-> 0,
              deleted |-> FALSE]

FragTypeOK ==
  /\ fragment \in Fragment
  /\ history \in Seq(Version)
  /\ references \in 0..MaxRefs
  /\ renewal \in [Requests -> Addition \cup {NoCopy}]

FragInit ==
  /\ fragment = NoFragment /\ history = <<>> /\ references = 0
  /\ renewal = [r \in Requests |-> NoCopy]

-----------------------------------------------------------------------------

Present == fragment.version > 0 /\ ~fragment.deleted

(* A change is within the bound. *)
Changeable ==
  /\ Present
  /\ fragment.version < MaxFragVersion /\ Len(history) < MaxFragVersion

(* next_version_number looks at the versions that are stored by now. *)
NextNumber == 1 + Max({0} \cup {history[n].number : n \in DOMAIN history})

SavedAs(f, number) ==
  /\ fragment' = f
  /\ history' = Append(history, [number |-> number, text |-> f.text,
                                 source |-> f.source])

(* Mutant of HasBody: an empty text will do. *)
HasSomething(text, source) == text \in Text \/ source

(* A fragment keeps a text or a source file. *)
HasBody(text, source) == text # NoText \/ source

CreateFragment(text, source) ==
  /\ fragment = NoFragment
  /\ HasBody(text, source)
  /\ SavedAs([NoFragment EXCEPT !.text = text, !.source = source,
                               !.version = 1], 1)
  /\ UNCHANGED <<references, renewal>>

(* update, with the version the caller knows. *)
UpdateFragment(text) ==
  /\ Changeable
  /\ HasBody(text, fragment.source)
  /\ fragment' = [fragment EXCEPT !.text = text, !.version = @ + 1]
  /\ UNCHANGED <<history, references, renewal>>

DeleteFragment ==
  /\ Changeable
  /\ fragment' = [fragment EXCEPT !.deleted = TRUE, !.version = @ + 1]
  /\ UNCHANGED <<history, references, renewal>>

(* add_version without a file awaits nothing. *)
AddText(text) ==
  /\ Changeable
  /\ HasBody(text, fragment.source)
  /\ SavedAs([fragment EXCEPT !.text = text, !.version = @ + 1], NextNumber)
  /\ UNCHANGED <<references, renewal>>

(* add_version with a file: text is what the request carries. *)
BeginAddFile(r, text, given) ==
  /\ renewal[r] = NoCopy
  /\ Changeable
  /\ ~given => text = NoText
  /\ renewal' = [renewal EXCEPT
       ![r] = [copy |-> fragment, text |-> text, given |-> given]]
  /\ UNCHANGED <<fragment, history, references>>

(* Mutant of EndAddFile: the number is taken before the file is awaited.   *)
EndAddFileEarlyNumber(r) ==
  /\ renewal[r] # NoCopy /\ Len(history) < MaxFragVersion
  /\ LET old == renewal[r].copy
         text == IF renewal[r].given THEN renewal[r].text ELSE old.text
     IN SavedAs([old EXCEPT !.text = text, !.source = TRUE,
                            !.version = @ + 1], old.version + 1)
  /\ renewal' = [renewal EXCEPT ![r] = NoCopy]
  /\ UNCHANGED references

EndAddFile(r) ==
  /\ renewal[r] # NoCopy /\ Len(history) < MaxFragVersion
  /\ LET old == renewal[r].copy
         text == IF renewal[r].given THEN renewal[r].text ELSE old.text
     IN SavedAs([old EXCEPT !.text = text, !.source = TRUE,
                            !.version = @ + 1], NextNumber)
  /\ renewal' = [renewal EXCEPT ![r] = NoCopy]
  /\ UNCHANGED references

RefuseAddFile(r) ==
  /\ renewal[r] # NoCopy
  /\ renewal' = [renewal EXCEPT ![r] = NoCopy]
  /\ UNCHANGED <<fragment, history, references>>

AddReference ==
  /\ Changeable /\ references < MaxRefs
  /\ references' = references + 1
  /\ fragment' = [fragment EXCEPT !.uses = @ + 1, !.version = @ + 1]
  /\ UNCHANGED <<history, renewal>>

FragNext ==
  \/ \E text \in Text :
       \/ \E source \in BOOLEAN : CreateFragment(text, source)
       \/ UpdateFragment(text) \/ AddText(text)
       \/ \E r \in Requests, given \in BOOLEAN : BeginAddFile(r, text, given)
  \/ \E r \in Requests : EndAddFile(r) \/ RefuseAddFile(r)
  \/ DeleteFragment \/ AddReference

FragSpec == FragInit /\ [][FragNext]_fragVars

-----------------------------------------------------------------------------
(* Properties                                                              *)

(* The versions are numbered one by one however many requests await their  *)
(* file, and each of them and the fragment have a text or a file           *)
(* (add_version, next_version_number, update).                             *)
VersionsNumbered ==
  /\ \A n \in DOMAIN history :
       history[n].number = n /\ HasBody(history[n].text, history[n].source)
  /\ fragment.version > 0 => HasBody(fragment.text, fragment.source)

(* The use count never exceeds the references that were saved: a request   *)
(* that saves an old copy can lose some, and none is counted that was not  *)
(* made (add_reference against add_version).                               *)
UsesWereMade == fragment.uses <= references

(* The use count is the number of references. *)
UsesCounted == fragment.uses = references

(* A fragment that was deleted is not brought back. *)
StaysDeleted == [][fragment.deleted => fragment'.deleted]_fragVars

=============================================================================
