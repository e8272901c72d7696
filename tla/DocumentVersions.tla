-------------------------- MODULE DocumentVersions --------------------------
(***************************************************************************)
(* The documents of a bid task (domains/documents): one of each type, with *)
(* versions that are only ever appended; a rollback appends the old        *)
(* content once more.  Nothing is awaited here.                            *)
(***************************************************************************)
EXTENDS Naturals, FiniteSets, SequencesExt

CONSTANTS
  DocTypes,     \* types of documents
  Sections,     \* names of sections
  Bodies,       \* what a section may say
  MaxVersions   \* versions of the task (bound)

ASSUME DocumentAssumption == MaxVersions \in Nat

VARIABLES
  documents,    \* store.documents by their type
  versions      \* store.versions, in the order they were saved

docVars == <<documents, versions>>

(* parse_sections: the text as a function of the sections that occur in it. *)
DocText == UNION {[S -> Bodies] : S \in SUBSET Sections}
Document == [exists : BOOLEAN, current : 0..MaxVersions, latest : DocText]
DocVersion == [type : DocTypes, number : 1..MaxVersions, text : DocText,
               source : 0..MaxVersions]

NoDocText == [x \in {} |-> x]

DocTypeOK ==
  /\ documents \in [DocTypes -> Document]
  /\ versions \in Seq(DocVersion)

DocInit ==
  /\ documents = [t \in DocTypes |->
                    [exists |-> FALSE, current |-> 0, latest |-> NoDocText]]
  /\ versions = <<>>

-----------------------------------------------------------------------------

VersionsOf(t) == {i \in DOMAIN versions : versions[i].type = t}

(* Mutant of NextVersionNumber: every version of the task is counted. *)
NextNumberOfTask(t) == Len(versions) + 1

NextVersionNumber(t) ==
  1 + Max({0} \cup {versions[i].number : i \in VersionsOf(t)})

(* append_version: the digest and the size agree with the content. *)
AppendVersion(t, text, source) ==
  /\ Len(versions) < MaxVersions
  /\ versions' = Append(versions,
                   [type |-> t, number |-> NextVersionNumber(t),
                    text |-> text, source |-> source])
  /\ documents' = [documents EXCEPT
       ![t] = [exists |-> TRUE, current |-> NextVersionNumber(t),
               latest |-> text]]

(* Mutant of RollBack: the present content under the name of the old. *)
RollBackNothing(t, i) ==
  /\ documents[t].current # 0
  /\ i \in VersionsOf(t)
  /\ AppendVersion(t, documents[t].latest, i)

RollBack(t, i) ==
  /\ documents[t].current # 0
  /\ i \in VersionsOf(t)
  /\ AppendVersion(t, versions[i].text, i)

DocNext ==
  \E t \in DocTypes :
    \/ \E text \in DocText : AppendVersion(t, text, 0)
    \/ \E i \in DOMAIN versions : RollBack(t, i)

DocSpec == DocInit /\ [][DocNext]_docVars

-----------------------------------------------------------------------------
(* diff_sections                                                           *)

(* Mutant of Differences: what only the later text has goes unnoticed. *)
DifferencesOfOld(before, after) ==
  {s \in DOMAIN before : s \notin DOMAIN after \/ before[s] # after[s]}

Differences(before, after) ==
  {s \in DOMAIN before \cup DOMAIN after :
     ~(/\ s \in DOMAIN before /\ s \in DOMAIN after
       /\ before[s] = after[s])}

(* A section is added, removed or changed. *)
ChangeOf(s, before, after) ==
  [section |-> s,
   type |-> IF s \notin DOMAIN before THEN "added"
            ELSE IF s \notin DOMAIN after THEN "removed" ELSE "changed"]

Diff(before, after) ==
  {ChangeOf(s, before, after) : s \in Differences(before, after)}

Changed(type, diff) == {c.section : c \in {d \in diff : d.type = type}}

-----------------------------------------------------------------------------
(* Properties                                                              *)

(* The current version of a document is its last one and shows its text,   *)
(* the numbers run from 1 for each document, and a rollback repeats the    *)
(* version it names (append_version, rollback_to).                         *)
CurrentIsLatest ==
  /\ \A t \in DocTypes :
       /\ {versions[i].number : i \in VersionsOf(t)} = 1..documents[t].current
       /\ \A i \in VersionsOf(t) :
            (\A j \in VersionsOf(t) : j <= i) =>
              /\ documents[t].current = versions[i].number
              /\ documents[t].latest = versions[i].text
  /\ \A i \in DOMAIN versions :
       LET old == versions[i].source
       IN old # 0 => /\ versions[old].type = versions[i].type
                     /\ versions[old].text = versions[i].text

(* From the earlier of two versions of a document and their difference the *)
(* sections of the later one follow, and those that stayed are the same in *)
(* both (compare_versions, diff_sections).                                  *)
DiffRebuilds ==
  \A t \in DocTypes : \A i, j \in VersionsOf(t) :
    LET before == versions[i].text
        after == versions[j].text
        diff == Diff(before, after)
        kept == DOMAIN before \ (Changed("removed", diff) \cup Changed("changed", diff))
    IN /\ DOMAIN after = (DOMAIN before \ Changed("removed", diff))
                            \cup Changed("added", diff)
       /\ \A s \in kept : after[s] = before[s]

=============================================================================
