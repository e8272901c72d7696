--------------------------- MODULE Qualifications ---------------------------
(***************************************************************************)
(* The library of qualifications (domains/qualifications): certificates    *)
(* with their file, changed under an expected version, given a new version, *)
(* deleted, and imported by a job.  add_version awaits the file service    *)
(* between reading the entity and saving it; an import holds the lock of   *)
(* the store over its awaits, which no other operation takes.              *)
(***************************************************************************)
EXTENDS Naturals, FiniteSets

CONSTANTS
  Quals,          \* identifiers of qualifications
  Certs,          \* certificate numbers, folded to one case
  Rows,           \* the certificates a job may report: a set of nonempty sets
  Renewals,       \* requests for a new version under way (bound)
  MaxQualVersion, \* how often an entity is changed (bound)
  NoCert,         \* the absent certificate
  NoRenewal       \* no request

ASSUME QualificationAssumption ==
  /\ NoCert \notin Certs
  /\ Rows \subseteq (SUBSET Certs) \ {{}}
  /\ \A rows \in Rows : IsFiniteSet(rows)
  /\ MaxQualVersion \in Nat \ {0}

VARIABLES
  quals,          \* store.qualifications, deleted ones included
  qualVersions,   \* store.versions: how many each has
  renewals,       \* suspended add_version requests: what they will save
  import,         \* the job that imports a file, and what it came to
  applying,       \* the rows apply_import_result has validated, or none
  revived         \* qualifications saved from an old copy (history)

qualVars == <<quals, qualVersions, renewals, import, applying, revived>>

Qualification == [cert : Certs \cup {NoCert}, deleted : BOOLEAN,
                  version : 0..MaxQualVersion, imported : BOOLEAN]
Unused == [cert |-> NoCert, deleted |-> FALSE, version |-> 0, imported |-> FALSE]
Renewal == [of : Quals, copy : Qualification]

(* unknown: no import was asked for; queued: its job is bound. *)
ImportState == {"unknown", "queued", "succeeded", "failed"}

QualTypeOK ==
  /\ quals \in [Quals -> Qualification]
  /\ qualVersions \in [Quals -> Nat]
  /\ renewals \in [Renewals -> Renewal \cup {NoRenewal}]
  /\ import \in ImportState
  /\ applying \in Rows \cup {{}}
  /\ revived \subseteq Quals

QualInit ==
  /\ quals = [q \in Quals |-> Unused]
  /\ qualVersions = [q \in Quals |-> 0]
  /\ renewals = [r \in Renewals |-> NoRenewal]
  /\ import = "unknown" /\ applying = {} /\ revived = {}

-----------------------------------------------------------------------------
(* The store                                                               *)

Saved == {q \in Quals : quals[q] # Unused}
Active == {q \in Saved : ~quals[q].deleted}

(* cert_number_exists looks at deleted qualifications as well. *)
CertExists(cert, but) == \E q \in Saved \ but : quals[q].cert = cert

New(cert, imported) ==
  [cert |-> cert, deleted |-> FALSE, version |-> 1, imported |-> imported]

Written(q, old) ==
  revived' = IF quals[q] = old THEN revived ELSE revived \cup {q}

-----------------------------------------------------------------------------
(* Operations of writers: nothing is awaited from the check to the save.   *)

Create(q, cert) ==
  /\ q \notin Saved
  /\ ~CertExists(cert, {})
  /\ quals' = [quals EXCEPT ![q] = New(cert, FALSE)]
  /\ qualVersions' = [qualVersions EXCEPT ![q] = 1]
  /\ UNCHANGED <<renewals, import, applying, revived>>

(* Mutant of UpdateQualification: the certificate number is not compared. *)
UpdateUnchecked(q, cert) ==
  /\ q \in Active /\ quals[q].version < MaxQualVersion
  /\ quals' = [quals EXCEPT ![q].cert = cert, ![q].version = @ + 1]
  /\ UNCHANGED <<qualVersions, renewals, import, applying, revived>>

(* The caller sent the present version. *)
UpdateQualification(q, cert) ==
  /\ q \in Active /\ quals[q].version < MaxQualVersion
  /\ ~CertExists(cert, {q})
  /\ quals' = [quals EXCEPT ![q].cert = cert, ![q].version = @ + 1]
  /\ UNCHANGED <<qualVersions, renewals, import, applying, revived>>

Delete(q) ==
  /\ q \in Active /\ quals[q].version < MaxQualVersion
  /\ quals' = [quals EXCEPT ![q].deleted = TRUE, ![q].version = @ + 1]
  /\ UNCHANGED <<qualVersions, renewals, import, applying, revived>>

(* add_version has read the entity and awaits assert_accessible. *)
BeginVersion(r, q) ==
  /\ renewals[r] = NoRenewal
  /\ q \in Active /\ quals[q].version < MaxQualVersion
  /\ renewals' = [renewals EXCEPT ![r] = [of |-> q, copy |-> quals[q]]]
  /\ UNCHANGED <<quals, qualVersions, import, applying, revived>>

(* The entity is saved, and then the version; a change note that is missing *)
(* is only found in between.                                                *)
EndVersion(r) ==
  /\ renewals[r] # NoRenewal
  /\ LET q == renewals[r].of IN
       /\ quals' = [quals EXCEPT
            ![q] = [renewals[r].copy EXCEPT !.version = @ + 1]]
       /\ \E noted \in BOOLEAN :
            qualVersions' = [qualVersions EXCEPT ![q] = IF noted THEN @ + 1 ELSE @]
       /\ Written(q, renewals[r].copy)
  /\ renewals' = [renewals EXCEPT ![r] = NoRenewal]
  /\ UNCHANGED <<import, applying>>

(* The file is not there, or not clean. *)
RefuseVersion(r) ==
  /\ renewals[r] # NoRenewal
  /\ renewals' = [renewals EXCEPT ![r] = NoRenewal]
  /\ UNCHANGED <<quals, qualVersions, import, applying, revived>>

-----------------------------------------------------------------------------
(* The import of a file                                                    *)

(* import_file under the lock: a second request gets the same job. *)
ImportFile ==
  /\ import = "unknown"
  /\ import' = "queued"
  /\ UNCHANGED <<quals, qualVersions, renewals, applying, revived>>

(* apply_import_result takes the lock, validates the rows, and awaits the   *)
(* file service and the audit.                                              *)
BeginApply(rows) ==
  /\ import = "queued" /\ applying = {}
  /\ \A cert \in rows : ~CertExists(cert, {})
  /\ applying' = rows
  /\ UNCHANGED <<quals, qualVersions, renewals, import, revived>>

(* The rows of a set of certificates, saved in free places. *)
Placed(place, rows) ==
  [q \in Quals |-> IF \E cert \in rows : place[cert] = q
                   THEN New(CHOOSE cert \in rows : place[cert] = q, TRUE)
                   ELSE quals[q]]

Injective(f) == \A a, b \in DOMAIN f : f[a] = f[b] => a = b
Places(rows) == {f \in [rows -> Quals \ Saved] : Injective(f)}

(* Mutant of EndApply: what was validated before the awaits still holds.   *)
EndApplyUnchecked ==
  /\ applying # {}
  /\ \E place \in Places(applying) : quals' = Placed(place, applying)
  /\ qualVersions' = [q \in Quals |->
                    IF quals'[q] # quals[q] THEN 1 ELSE qualVersions[q]]
  /\ import' = "succeeded" /\ applying' = {}
  /\ UNCHANGED <<renewals, revived>>

(* Mutant of EndApply: the rows that are refused are left out. *)
EndApplyPartly ==
  LET rows == {cert \in applying : ~CertExists(cert, {})} IN
  /\ applying # {}
  /\ \E place \in Places(rows) : quals' = Placed(place, rows)
  /\ qualVersions' = [q \in Quals |->
                    IF quals'[q] # quals[q] THEN 1 ELSE qualVersions[q]]
  /\ import' = "succeeded" /\ applying' = {}
  /\ UNCHANGED <<renewals, revived>>

(* remember_import_result looks at the certificates once more, and saves    *)
(* all of the rows with the outcome, or nothing.                            *)
EndApply ==
  /\ applying # {}
  /\ \A cert \in applying : ~CertExists(cert, {})
  /\ \E place \in Places(applying) : quals' = Placed(place, applying)
  /\ qualVersions' = [q \in Quals |->
                    IF quals'[q] # quals[q] THEN 1 ELSE qualVersions[q]]
  /\ import' = "succeeded" /\ applying' = {}
  /\ UNCHANGED <<renewals, revived>>

(* The file is gone, or a certificate was taken in the meantime; the job    *)
(* stays as it is, and its result may come again.                           *)
RefuseApply ==
  /\ applying # {}
  /\ applying' = {}
  /\ UNCHANGED <<quals, qualVersions, renewals, import, revived>>

(* apply_import_failure, under the same lock. *)
ApplyFailure ==
  /\ import = "queued" /\ applying = {}
  /\ import' = "failed"
  /\ UNCHANGED <<quals, qualVersions, renewals, applying, revived>>

QualNext ==
  \/ \E q \in Quals, cert \in Certs : Create(q, cert) \/ UpdateQualification(q, cert)
  \/ \E q \in Quals : Delete(q)
  \/ \E r \in Renewals :
       (\E q \in Quals : BeginVersion(r, q)) \/ EndVersion(r) \/ RefuseVersion(r)
  \/ ImportFile \/ (\E rows \in Rows : BeginApply(rows))
  \/ EndApply \/ RefuseApply \/ ApplyFailure

QualSpec == QualInit /\ [][QualNext]_qualVars

-----------------------------------------------------------------------------
(* Properties                                                              *)

(* A certificate number is in the library once, deleted or not, however     *)
(* creations, updates and a suspended import overlap (create, update,       *)
(* remember_import_result); only an add_version that saves an old copy      *)
(* brings a number back that was given away.                                *)
CertificatesUnique ==
  \A q, r \in Saved \ revived : quals[q].cert = quals[r].cert => q = r

(* The same without the exception. *)
CertificateOnce ==
  \A q, r \in Saved : quals[q].cert = quals[r].cert => q = r

(* The rows of an import are in the library together and with its outcome, *)
(* or none of them is.                                                      *)
ImportIsWhole ==
  LET imported == {q \in Saved : quals[q].imported}
  IN IF import = "succeeded"
     THEN \E rows \in Rows : Cardinality(imported) = Cardinality(rows)
     ELSE imported = {}

=============================================================================
