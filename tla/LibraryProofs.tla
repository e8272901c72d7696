---------------------------- MODULE LibraryProofs ---------------------------
(***************************************************************************)
(* Proofs about what bids are made from, each for any number of entities   *)
(* and of suspended requests: the fragments, the qualifications, the       *)
(* material list of a task and its generated documents.                    *)
(***************************************************************************)
EXTENDS BidMaterials, Qualifications, Fragments, DocumentVersions,
        FiniteSetTheorems, TLAPS

(* One more than the numbers 1 to n is n + 1. *)
LEMMA NextOfInterval ==
  ASSUME NEW n \in Nat, NEW S, S = 1..n
  PROVE  1 + Max({0} \cup S) = n + 1
<1>1. {0} \cup S = 0..n
  BY Z3
<1>2. n \in 0..n /\ \A y \in 0..n : n >= y
  OBVIOUS
<1>3. \A x \in 0..n : (\A y \in 0..n : x >= y) => x = n
  BY <1>2
<1>4. Max(0..n) = n
  BY <1>2, <1>3 DEF Max
<1>5. Max({0} \cup S) = n
  BY <1>1, <1>4
<1> QED BY <1>5

-----------------------------------------------------------------------------
(* Fragments                                                               *)

(* A suspended request holds a copy that was once stored: it has a body,   *)
(* and counts no use that was not made; its version may still be raised.   *)
CopyInv(q) ==
  q # NoCopy =>
    /\ q.copy.version > 0 /\ q.copy.version < MaxFragVersion
    /\ HasBody(q.copy.text, q.copy.source)
    /\ q.copy.uses <= references

FragInv ==
  /\ FragTypeOK /\ VersionsNumbered /\ UsesWereMade
  /\ fragment.version = 0 => history = <<>>
  /\ \A r \in Requests : CopyInv(renewal[r])

LEMMA FragStart == FragInit => FragInv
<1> SUFFICES ASSUME FragInit PROVE FragInv
  OBVIOUS
<1>1. FragTypeOK
  BY FragmentAssumption DEF FragInit, FragTypeOK, NoFragment, Fragment, Text
<1>2. VersionsNumbered /\ UsesWereMade
  BY DEF FragInit, VersionsNumbered, UsesWereMade, NoFragment
<1>3. \A r \in Requests : CopyInv(renewal[r])
  BY DEF FragInit, CopyInv
<1>4. history = <<>>
  BY DEF FragInit
<1> QED BY <1>1, <1>2, <1>3, <1>4 DEF FragInv

LEMMA NextNumberIs ==
  ASSUME FragInv
  PROVE  NextNumber = Len(history) + 1
<1>1. /\ history \in Seq(Version)
      /\ \A n \in 1..Len(history) : history[n].number = n
  BY DEF FragInv, FragTypeOK, VersionsNumbered
<1>2. {history[n].number : n \in DOMAIN history} = 1..Len(history)
  BY <1>1
<1>3. Len(history) \in Nat
  BY <1>1
<1> QED BY <1>2, <1>3, NextOfInterval DEF NextNumber

(* A fragment is saved with a new version of the next number. *)
LEMMA SavingKeepsFragInv ==
  ASSUME FragInv, NEW f \in Fragment, SavedAs(f, Len(history) + 1),
         HasBody(f.text, f.source), f.uses <= references,
         f.version > 0, references' = references, renewal' \in [Requests -> Addition \cup {NoCopy}],
         \A r \in Requests : renewal'[r] \in {renewal[r], NoCopy}
  PROVE  FragInv'
<1> DEFINE v == [number |-> Len(history) + 1, text |-> f.text,
                 source |-> f.source]
<1>1. /\ history \in Seq(Version) /\ references \in 0..MaxRefs
      /\ \A n \in 1..Len(history) :
           /\ history[n].number = n
           /\ HasBody(history[n].text, history[n].source)
  BY DEF FragInv, FragTypeOK, VersionsNumbered
<1>2. /\ v \in Version /\ v.number = Len(history) + 1
      /\ HasBody(v.text, v.source)
  BY <1>1 DEF Version, Fragment
<1> HIDE DEF v
<1>3. fragment' = f /\ history' = Append(history, v)
  BY DEF SavedAs, v
<1>4. /\ history' \in Seq(Version)
      /\ \A n \in DOMAIN history' :
           /\ history'[n].number = n
           /\ HasBody(history'[n].text, history'[n].source)
  BY <1>1, <1>2, <1>3
<1>5. FragTypeOK'
  BY <1>1, <1>3, <1>4 DEF FragTypeOK
<1>6. VersionsNumbered' /\ UsesWereMade'
  BY <1>3, <1>4 DEF VersionsNumbered, UsesWereMade
<1>7. \A r \in Requests : CopyInv(renewal[r])'
  BY DEF FragInv, CopyInv
<1> QED BY <1>3, <1>5, <1>6, <1>7 DEF FragInv

(* The fragment is changed and no version is added. *)
LEMMA EditingKeepsFragInv ==
  ASSUME FragInv, NEW f \in Fragment, fragment' = f, history' = history,
         HasBody(f.text, f.source), f.version > 0, references' \in 0..MaxRefs,
         references <= references', f.uses <= references', renewal' = renewal
  PROVE  FragInv'
<1>1. FragTypeOK'
  BY DEF FragInv, FragTypeOK
<1>2. VersionsNumbered' /\ UsesWereMade'
  BY DEF FragInv, VersionsNumbered, UsesWereMade
<1>3. ASSUME NEW r \in Requests PROVE CopyInv(renewal[r])'
  <2>1. CopyInv(renewal[r]) /\ renewal[r] \in Addition \cup {NoCopy}
    BY DEF FragInv, FragTypeOK
  <2>2. references \in Nat /\ references' \in Nat
    BY DEF FragInv, FragTypeOK
  <2>3. renewal[r] # NoCopy => renewal[r].copy.uses \in Nat
    BY <2>1 DEF Addition, Fragment
  <2> QED BY <2>1, <2>2, <2>3 DEF CopyInv
<1> QED BY <1>1, <1>2, <1>3 DEF FragInv

LEMMA FragStep == FragInv /\ [FragNext]_fragVars => FragInv'
<1> SUFFICES ASSUME FragInv, [FragNext]_fragVars PROVE FragInv'
  OBVIOUS
<1> USE FragmentAssumption
<1>1. /\ fragment \in Fragment /\ history \in Seq(Version)
      /\ references \in 0..MaxRefs
      /\ renewal \in [Requests -> Addition \cup {NoCopy}]
      /\ fragment.version > 0 => HasBody(fragment.text, fragment.source)
      /\ fragment.uses <= references
      /\ NextNumber = Len(history) + 1
      /\ fragment.version = 0 => history = <<>>
  BY NextNumberIs DEF FragInv, FragTypeOK, VersionsNumbered, UsesWereMade
<1>2. \A r \in Requests : renewal[r] \in {renewal[r], NoCopy}
  OBVIOUS
<1>3. ASSUME NEW text \in Text, NEW source \in BOOLEAN,
             CreateFragment(text, source)
      PROVE  FragInv'
  <2> DEFINE g == [NoFragment EXCEPT !.text = text]
             h == [g EXCEPT !.source = source]
             f == [h EXCEPT !.version = 1]
  <2>1. NoFragment \in Fragment /\ NoFragment.uses = 0
    BY DEF NoFragment, Fragment, Text
  <2>2. g \in Fragment /\ g.text = text /\ g.uses = 0
    BY <2>1 DEF Fragment
  <2> HIDE DEF g
  <2>3. h \in Fragment /\ h.text = text /\ h.source = source /\ h.uses = 0
    BY <2>2 DEF Fragment
  <2> HIDE DEF h
  <2>4. /\ f \in Fragment /\ f.text = text /\ f.source = source
        /\ f.uses = 0 /\ f.version = 1
    BY <2>3 DEF Fragment
  <2>5. /\ fragment = NoFragment /\ SavedAs(f, 1) /\ HasBody(text, source)
        /\ UNCHANGED <<references, renewal>>
    BY <1>3 DEF CreateFragment, f, h, g
  <2> HIDE DEF f
  <2>6. Len(history) = 0
    BY <1>1, <2>5 DEF NoFragment
  <2> QED BY <1>1, <1>2, <2>4, <2>5, <2>6, SavingKeepsFragInv
<1>4. ASSUME NEW text \in Text, UpdateFragment(text) \/ AddText(text)
      PROVE  FragInv'
  <2> DEFINE g == [fragment EXCEPT !.text = text]
             f == [g EXCEPT !.version = @ + 1]
  <2>1. /\ fragment.version < MaxFragVersion /\ HasBody(text, fragment.source)
        /\ UNCHANGED <<references, renewal>>
        /\ \/ fragment' = f /\ history' = history
           \/ SavedAs(f, Len(history) + 1)
    BY <1>1, <1>4 DEF UpdateFragment, AddText, Changeable
  <2>2. /\ g \in Fragment /\ g.text = text /\ g.source = fragment.source
        /\ g.uses = fragment.uses /\ g.version = fragment.version
    BY <1>1 DEF Fragment
  <2> HIDE DEF g
  <2>3. /\ f \in Fragment /\ f.text = text /\ f.source = fragment.source
        /\ f.uses = fragment.uses /\ f.version > 0
    BY <2>1, <2>2 DEF Fragment
  <2> HIDE DEF f
  <2>4. CASE fragment' = f /\ history' = history
    BY <1>1, <2>1, <2>3, <2>4, EditingKeepsFragInv
  <2>5. CASE SavedAs(f, Len(history) + 1)
    BY <1>1, <1>2, <2>1, <2>3, <2>5, SavingKeepsFragInv
  <2> QED BY <2>1, <2>4, <2>5
<1>5. CASE DeleteFragment
  <2> DEFINE g == [fragment EXCEPT !.deleted = TRUE]
             f == [g EXCEPT !.version = @ + 1]
  <2>1. /\ fragment.version > 0 /\ fragment.version < MaxFragVersion
        /\ fragment' = f /\ UNCHANGED <<history, references, renewal>>
    BY <1>5 DEF DeleteFragment, Changeable, Present
  <2>2. /\ g \in Fragment /\ g.text = fragment.text /\ g.source = fragment.source
        /\ g.uses = fragment.uses /\ g.version = fragment.version
    BY <1>1 DEF Fragment
  <2> HIDE DEF g
  <2>3. /\ f \in Fragment /\ f.text = fragment.text /\ f.source = fragment.source
        /\ f.uses = fragment.uses /\ f.version > 0
    BY <2>1, <2>2 DEF Fragment
  <2> HIDE DEF f
  <2> QED BY <1>1, <2>1, <2>3, EditingKeepsFragInv
<1>6. CASE AddReference
  <2> DEFINE g == [fragment EXCEPT !.uses = @ + 1]
             f == [g EXCEPT !.version = @ + 1]
  <2>1. /\ fragment.version > 0 /\ fragment.version < MaxFragVersion
        /\ references < MaxRefs /\ references' = references + 1
        /\ fragment' = f /\ UNCHANGED <<history, renewal>>
    BY <1>6 DEF AddReference, Changeable, Present
  <2>2. /\ fragment.uses \in Nat /\ fragment.version \in Nat
    BY <1>1 DEF Fragment
  <2>3. /\ g \in Fragment /\ g.text = fragment.text /\ g.source = fragment.source
        /\ g.uses = fragment.uses + 1 /\ g.version = fragment.version
    BY <1>1, <2>1, <2>2 DEF Fragment
  <2> HIDE DEF g
  <2>4. /\ f \in Fragment /\ f.text = fragment.text /\ f.source = fragment.source
        /\ f.uses = fragment.uses + 1 /\ f.version > 0
    BY <2>1, <2>3 DEF Fragment
  <2> HIDE DEF f
  <2>5. references' \in 0..MaxRefs /\ references <= references'
        /\ f.uses <= references'
    BY <1>1, <2>1, <2>2, <2>4
  <2> QED BY <1>1, <2>1, <2>4, <2>5, EditingKeepsFragInv
<1>7. ASSUME NEW r \in Requests, NEW text \in Text, NEW given \in BOOLEAN,
             BeginAddFile(r, text, given)
      PROVE  FragInv'
  <2> DEFINE q == [copy |-> fragment, text |-> text, given |-> given]
  <2>1. /\ fragment.version > 0 /\ fragment.version < MaxFragVersion
        /\ renewal' = [renewal EXCEPT ![r] = q]
        /\ UNCHANGED <<fragment, history, references>>
    BY <1>7 DEF BeginAddFile, Changeable, Present
  <2>2. /\ q \in Addition /\ q.copy = fragment
    BY <1>1 DEF Addition
  <2> HIDE DEF q
  <2>3. FragTypeOK' /\ VersionsNumbered' /\ UsesWereMade'
    BY <2>1, <2>2 DEF FragInv, FragTypeOK, VersionsNumbered, UsesWereMade
  <2>4. ASSUME NEW s \in Requests PROVE CopyInv(renewal[s])'
    BY <1>1, <2>1, <2>2 DEF FragInv, CopyInv
  <2> QED BY <1>1, <2>1, <2>3, <2>4 DEF FragInv
<1>8. ASSUME NEW r \in Requests, EndAddFile(r) PROVE FragInv'
  <2> DEFINE old == renewal[r].copy
             text == IF renewal[r].given THEN renewal[r].text ELSE old.text
             g == [old EXCEPT !.text = text]
             h == [g EXCEPT !.source = TRUE]
             f == [h EXCEPT !.version = @ + 1]
  <2>1. /\ renewal[r] # NoCopy /\ SavedAs(f, Len(history) + 1)
        /\ renewal' = [renewal EXCEPT ![r] = NoCopy] /\ references' = references
    BY <1>1, <1>8 DEF EndAddFile
  <2>2. /\ old \in Fragment /\ text \in Text
        /\ old.version \in 0..MaxFragVersion /\ old.version < MaxFragVersion
        /\ old.uses <= references
    BY <1>1, <2>1 DEF FragInv, CopyInv, Addition, Fragment
  <2> HIDE DEF old, text
  <2>3. g \in Fragment /\ g.uses = old.uses /\ g.version = old.version
    BY <2>2 DEF Fragment
  <2> HIDE DEF g
  <2>4. /\ h \in Fragment /\ h.uses = old.uses /\ h.version = old.version
        /\ h.source = TRUE
    BY <2>3 DEF Fragment
  <2> HIDE DEF h
  <2>5. /\ f \in Fragment /\ f.uses = old.uses /\ f.source = TRUE
        /\ f.version > 0
    BY <2>2, <2>4 DEF Fragment
  <2> HIDE DEF f
  <2>6. HasBody(f.text, f.source)
    BY <2>5 DEF HasBody
  <2>7. /\ renewal' \in [Requests -> Addition \cup {NoCopy}]
        /\ \A s \in Requests : renewal'[s] \in {renewal[s], NoCopy}
    BY <1>1, <2>1
  <2> QED BY <2>1, <2>2, <2>5, <2>6, <2>7, SavingKeepsFragInv
<1>9. ASSUME NEW r \in Requests, RefuseAddFile(r) PROVE FragInv'
  BY <1>1, <1>9 DEF RefuseAddFile, FragInv, FragTypeOK, VersionsNumbered,
                    UsesWereMade, CopyInv
<1>10. CASE UNCHANGED fragVars
  BY <1>10 DEF fragVars, FragInv, FragTypeOK, VersionsNumbered, UsesWereMade,
               CopyInv
<1> QED BY <1>3, <1>4, <1>5, <1>6, <1>7, <1>8, <1>9, <1>10 DEF FragNext

(* The versions of a fragment are numbered one by one, each of them and the *)
(* fragment have a text or a file, and no use is counted that was not made, *)
(* however many requests that save old copies await their file              *)
(* (FragmentService.add_version, add_reference).                            *)
THEOREM FragmentsCorrect ==
  FragSpec => [](FragTypeOK /\ VersionsNumbered /\ UsesWereMade)
<1>1. FragInv => FragTypeOK /\ VersionsNumbered /\ UsesWereMade
  BY DEF FragInv
<1> QED BY <1>1, FragStart, FragStep, PTL DEF FragSpec

-----------------------------------------------------------------------------
(* Qualifications                                                          *)

(* A qualification in the library has a number and was written.            *)
Proper(x) == x.cert \in Certs /\ x.version > 0

(* What is suspended holds a copy of a qualification that was active.      *)
RenewalInv(w) ==
  w # NoRenewal => Proper(w.copy) /\ w.copy.version < MaxQualVersion

QualInv ==
  /\ QualTypeOK /\ CertificatesUnique
  /\ \A q \in Saved : Proper(quals[q])
  /\ \A r \in Renewals : RenewalInv(renewals[r])

LEMMA QualStart == QualInit => QualInv
<1> SUFFICES ASSUME QualInit PROVE QualInv
  OBVIOUS
<1>1. Unused \in Qualification
  BY QualificationAssumption DEF Unused, Qualification
<1>2. QualTypeOK
  BY <1>1 DEF QualInit, QualTypeOK, ImportState
<1>3. Saved = {}
  BY DEF QualInit, Saved
<1>4. CertificatesUnique /\ \A q \in Saved : Proper(quals[q])
  BY <1>3 DEF CertificatesUnique
<1>5. \A r \in Renewals : RenewalInv(renewals[r])
  BY DEF QualInit, RenewalInv
<1> QED BY <1>2, <1>4, <1>5 DEF QualInv

(* No other qualification that was not saved from an old copy has it. *)
Free(q, cert) ==
  \A p \in Saved \ (revived \cup {q}) : quals[p].cert # cert

(* One qualification is written, with a number that is free. *)
LEMMA WritingKeepsCertificates ==
  ASSUME QualInv, NEW q \in Quals, NEW x \in Qualification, Proper(x),
         quals' = [quals EXCEPT ![q] = x], revived \subseteq revived',
         q \in revived' \/ Free(q, x.cert)
  PROVE  CertificatesUnique' /\ \A p \in Saved' : Proper(quals'[p])
<1>1. quals \in [Quals -> Qualification]
  BY DEF QualInv, QualTypeOK
<1>2. \A p \in Quals : quals'[p] = IF p = q THEN x ELSE quals[p]
  BY <1>1
<1>3. Saved' = Saved \cup {q}
  BY <1>2, QualificationAssumption DEF Saved, Proper, Unused
<1>4. \A p \in Saved' : Proper(quals'[p])
  BY <1>2, <1>3 DEF QualInv, Saved
<1>5. ASSUME NEW p \in Saved' \ revived', NEW r \in Saved' \ revived',
             quals'[p].cert = quals'[r].cert
      PROVE  p = r
  <2>1. CASE p # q /\ r # q
    BY <1>2, <1>3, <1>5, <2>1 DEF QualInv, CertificatesUnique, Saved
  <2>2. CASE p = q /\ r # q
    BY <1>2, <1>3, <1>5, <2>2 DEF Free
  <2>3. CASE p # q /\ r = q
    BY <1>2, <1>3, <1>5, <2>3 DEF Free
  <2> QED BY <2>1, <2>2, <2>3
<1> QED BY <1>4, <1>5 DEF CertificatesUnique

(* The rows of an import get places of their own.                          *)
LEMMA PlacingKeepsCertificates ==
  ASSUME QualInv, applying \subseteq Certs, NEW place \in Places(applying),
         \A cert \in applying : ~CertExists(cert, {}),
         quals' = Placed(place, applying), revived' = revived
  PROVE  /\ quals' \in [Quals -> Qualification] /\ CertificatesUnique'
         /\ \A p \in Saved' : Proper(quals'[p])
<1>1. quals \in [Quals -> Qualification] /\ MaxQualVersion \in Nat \ {0}
  BY QualificationAssumption DEF QualInv, QualTypeOK
<1>2. \A c \in Certs : New(c, TRUE) \in Qualification /\ Proper(New(c, TRUE))
                       /\ New(c, TRUE).cert = c
  BY <1>1 DEF New, Qualification, Proper
<1>3. /\ place \in [applying -> Quals \ Saved]
      /\ \A c, d \in applying : place[c] = place[d] => c = d
  BY DEF Places, Injective
<1>4. ASSUME NEW c \in applying
      PROVE  place[c] \in Quals /\ quals'[place[c]] = New(c, TRUE)
  <2>1. c = CHOOSE cert \in applying : place[cert] = place[c]
    BY <1>3
  <2> QED BY <1>3, <2>1 DEF Placed
<1>5. ASSUME NEW q \in Quals
      PROVE  \/ \E c \in applying : q = place[c]
             \/ (\A c \in applying : q # place[c]) /\ quals'[q] = quals[q]
  BY DEF Placed
<1>6. quals' \in [Quals -> Qualification]
  <2>1. ASSUME NEW q \in Quals PROVE quals'[q] \in Qualification
    <3>1. CASE \E c \in applying : q = place[c]
      <4>1. PICK c \in applying : q = place[c]
        BY <3>1
      <4>2. quals'[q] = New(c, TRUE) /\ c \in Certs
        BY <1>4, <4>1
      <4> QED BY <1>2, <4>2
    <3>2. CASE quals'[q] = quals[q]
      BY <1>1, <3>2
    <3> QED BY <1>5, <3>1, <3>2
  <2>2. quals' = [q \in Quals |-> quals'[q]]
    BY DEF Placed
  <2> QED BY <2>1, <2>2
<1>7. ASSUME NEW p \in Saved'
      PROVE  /\ p \in Quals
             /\ \/ \E c \in applying : p = place[c] /\ quals'[p] = New(c, TRUE)
                \/ p \in Saved /\ quals'[p] = quals[p]
  <2>1. p \in Quals /\ quals'[p] # Unused
    BY DEF Saved
  <2>2. CASE \E c \in applying : p = place[c]
    <3>1. PICK c \in applying : p = place[c]
      BY <2>2
    <3> QED BY <1>4, <2>1, <3>1
  <2>3. CASE quals'[p] = quals[p]
    BY <2>1, <2>3 DEF Saved
  <2> QED BY <1>5, <2>1, <2>2, <2>3
<1>8. \A p \in Saved' : Proper(quals'[p])
  BY <1>2, <1>7 DEF QualInv
<1>9. ASSUME NEW p \in Saved' \ revived, NEW r \in Saved' \ revived,
             quals'[p].cert = quals'[r].cert
      PROVE  p = r
  <2>1. CASE p \in Saved /\ quals'[p] = quals[p]
    <3>1. CASE r \in Saved /\ quals'[r] = quals[r]
      BY <1>9, <2>1, <3>1 DEF QualInv, CertificatesUnique
    <3>2. ASSUME NEW c \in applying, quals'[r] = New(c, TRUE) PROVE FALSE
      BY <1>2, <1>9, <2>1, <3>2 DEF CertExists
    <3> QED BY <1>7, <3>1, <3>2
  <2>2. ASSUME NEW c \in applying, p = place[c], quals'[p] = New(c, TRUE)
        PROVE  p = r
    <3>0. c \in Certs
      OBVIOUS
    <3>3. quals'[p].cert = c
      BY <1>2, <2>2, <3>0
    <3>1. CASE r \in Saved /\ quals'[r] = quals[r]
      BY <1>9, <3>1, <3>3 DEF CertExists
    <3>2. ASSUME NEW d \in applying, r = place[d], quals'[r] = New(d, TRUE)
          PROVE  p = r
      <4>0. d \in Certs
        OBVIOUS
      <4>1. quals'[r].cert = d
        BY <1>2, <3>2, <4>0
      <4> QED BY <1>9, <2>2, <3>2, <3>3, <4>1
    <3> QED BY <1>7, <3>1, <3>2
  <2> QED BY <1>7, <2>1, <2>2
<1> QED BY <1>6, <1>8, <1>9 DEF CertificatesUnique

LEMMA QualStep == QualInv /\ [QualNext]_qualVars => QualInv'
<1> SUFFICES ASSUME QualInv, [QualNext]_qualVars PROVE QualInv'
  OBVIOUS
<1>1. /\ quals \in [Quals -> Qualification] /\ qualVersions \in [Quals -> Nat]
      /\ renewals \in [Renewals -> Renewal \cup {NoRenewal}]
      /\ import \in ImportState /\ applying \in Rows \cup {{}}
      /\ revived \subseteq Quals /\ MaxQualVersion \in Nat \ {0}
      /\ applying \subseteq Certs
  BY QualificationAssumption DEF QualInv, QualTypeOK
<1>2. ASSUME NEW q \in Quals, NEW x \in Qualification, Proper(x),
             quals' = [quals EXCEPT ![q] = x], revived' \in {revived, revived \cup {q}},
             q \in revived' \/ Free(q, x.cert),
             qualVersions' \in [Quals -> Nat],
             renewals' \in [Renewals -> Renewal \cup {NoRenewal}],
             \A r \in Renewals : renewals'[r] \in {renewals[r], NoRenewal},
             import' = import, applying' = applying
      PROVE  QualInv'
  <2>1. CertificatesUnique' /\ \A p \in Saved' : Proper(quals'[p])
    BY <1>2, WritingKeepsCertificates
  <2>2. \A r \in Renewals : RenewalInv(renewals[r])'
    BY <1>2 DEF QualInv, RenewalInv
  <2> QED BY <1>1, <1>2, <2>1, <2>2 DEF QualInv, QualTypeOK
<1>3. ASSUME NEW q \in Quals, NEW cert, ~CertExists(cert, {q})
      PROVE  Free(q, cert)
  BY <1>3 DEF CertExists, Free
<1>4. \A q \in Saved : Proper(quals[q]) /\ (q \in revived \/ Free(q, quals[q].cert))
  BY DEF QualInv, CertificatesUnique, Free, Saved
<1>5. \A r \in Renewals : renewals[r] \in {renewals[r], NoRenewal}
  OBVIOUS
<1>6. ASSUME NEW q \in Quals, NEW cert \in Certs, Create(q, cert) PROVE QualInv'
  <2> DEFINE x == New(cert, FALSE)
  <2>1. /\ quals' = [quals EXCEPT ![q] = x] /\ ~CertExists(cert, {})
        /\ qualVersions' = [qualVersions EXCEPT ![q] = 1]
        /\ UNCHANGED <<renewals, import, applying, revived>>
    BY <1>6 DEF Create
  <2>2. x \in Qualification /\ Proper(x) /\ x.cert = cert
    BY <1>1 DEF New, Qualification, Proper
  <2> HIDE DEF x
  <2>3. ~CertExists(cert, {q})
    BY <2>1 DEF CertExists
  <2>4. Free(q, x.cert)
    BY <1>3, <2>2, <2>3
  <2>5. qualVersions' \in [Quals -> Nat]
    BY <1>1, <2>1
  <2> QED BY <1>1, <1>2, <1>5, <2>1, <2>2, <2>4, <2>5
<1>7. ASSUME NEW q \in Quals, NEW cert \in Certs, UpdateQualification(q, cert)
      PROVE  QualInv'
  <2> DEFINE g == [quals[q] EXCEPT !.cert = cert]
             x == [g EXCEPT !.version = @ + 1]
  <2>1. /\ q \in Saved /\ quals[q].version < MaxQualVersion
        /\ quals' = [quals EXCEPT ![q] = x] /\ ~CertExists(cert, {q})
        /\ UNCHANGED <<qualVersions, renewals, import, applying, revived>>
    BY <1>1, <1>7 DEF UpdateQualification, Active
  <2>2. g \in Qualification /\ g.version = quals[q].version /\ g.cert = cert
    BY <1>1 DEF Qualification
  <2> HIDE DEF g
  <2>3. x \in Qualification /\ Proper(x) /\ x.cert = cert
    BY <1>1, <2>1, <2>2 DEF Qualification, Proper
  <2> HIDE DEF x
  <2>4. Free(q, x.cert)
    BY <1>3, <2>1, <2>3
  <2> QED BY <1>1, <1>2, <1>5, <2>1, <2>3, <2>4
<1>8. ASSUME NEW q \in Quals, Delete(q) PROVE QualInv'
  <2> DEFINE g == [quals[q] EXCEPT !.deleted = TRUE]
             x == [g EXCEPT !.version = @ + 1]
  <2>1. /\ q \in Saved /\ quals[q].version < MaxQualVersion
        /\ quals' = [quals EXCEPT ![q] = x]
        /\ UNCHANGED <<qualVersions, renewals, import, applying, revived>>
    BY <1>1, <1>8 DEF Delete, Active
  <2>2. /\ g \in Qualification /\ g.version = quals[q].version
        /\ g.cert = quals[q].cert
    BY <1>1 DEF Qualification
  <2> HIDE DEF g
  <2>3. x \in Qualification /\ Proper(x) /\ x.cert = quals[q].cert
    BY <1>1, <1>4, <2>1, <2>2 DEF Qualification, Proper
  <2> HIDE DEF x
  <2>4. q \in revived \/ Free(q, x.cert)
    BY <1>4, <2>1, <2>3
  <2> QED BY <1>1, <1>2, <1>5, <2>1, <2>3, <2>4
<1>9. ASSUME NEW r \in Renewals, NEW q \in Quals, BeginVersion(r, q)
      PROVE  QualInv'
  <2> DEFINE w == [of |-> q, copy |-> quals[q]]
  <2>1. /\ q \in Saved /\ quals[q].version < MaxQualVersion
        /\ renewals' = [renewals EXCEPT ![r] = w]
        /\ UNCHANGED <<quals, qualVersions, import, applying, revived>>
    BY <1>9 DEF BeginVersion, Active
  <2>2. w \in Renewal /\ w.copy = quals[q]
    BY <1>1 DEF Renewal
  <2>3. RenewalInv(w)
    BY <1>4, <2>1, <2>2 DEF RenewalInv
  <2> HIDE DEF w
  <2>4. \A s \in Renewals : RenewalInv(renewals[s])'
    BY <1>1, <2>1, <2>3 DEF QualInv, RenewalInv
  <2>5. CertificatesUnique' /\ \A p \in Saved' : Proper(quals'[p])
    BY <2>1 DEF QualInv, CertificatesUnique, Saved
  <2> QED BY <1>1, <2>1, <2>2, <2>4, <2>5 DEF QualInv, QualTypeOK
<1>10. ASSUME NEW r \in Renewals, EndVersion(r) PROVE QualInv'
  <2> DEFINE q == renewals[r].of
             old == renewals[r].copy
             x == [old EXCEPT !.version = @ + 1]
  <2>1. /\ renewals[r] # NoRenewal
        /\ quals' = [quals EXCEPT ![q] = x]
        /\ Written(q, old)
        /\ renewals' = [renewals EXCEPT ![r] = NoRenewal]
        /\ UNCHANGED <<import, applying>>
    BY <1>10 DEF EndVersion
  <2>2. PICK noted \in BOOLEAN :
          qualVersions' = [qualVersions EXCEPT ![q] = IF noted THEN @ + 1 ELSE @]
    BY <1>10 DEF EndVersion
  <2>3. /\ q \in Quals /\ old \in Qualification /\ Proper(old)
        /\ old.version < MaxQualVersion
    BY <1>1, <2>1 DEF QualInv, RenewalInv, Renewal
  <2> HIDE DEF q, old
  <2>4. x \in Qualification /\ Proper(x) /\ x.cert = old.cert
    BY <1>1, <2>3 DEF Qualification, Proper
  <2> HIDE DEF x
  <2>5. /\ revived' \in {revived, revived \cup {q}}
        /\ q \in revived' \/ Free(q, x.cert)
    <3>1. CASE quals[q] = old
      <4>1. q \in Saved
        BY <2>3, <3>1, QualificationAssumption DEF Saved, Proper, Unused
      <4> QED BY <1>4, <2>1, <2>4, <3>1, <4>1 DEF Written
    <3>2. CASE quals[q] # old
      BY <2>1, <3>2 DEF Written
    <3> QED BY <3>1, <3>2
  <2>6. qualVersions' \in [Quals -> Nat]
    BY <1>1, <2>2, <2>3
  <2>7. /\ renewals' \in [Renewals -> Renewal \cup {NoRenewal}]
        /\ \A s \in Renewals : renewals'[s] \in {renewals[s], NoRenewal}
    BY <1>1, <2>1
  <2> QED BY <1>2, <2>1, <2>3, <2>4, <2>5, <2>6, <2>7
<1>11. CASE \/ \E r \in Renewals : RefuseVersion(r)
            \/ ImportFile \/ (\E rows \in Rows : BeginApply(rows))
            \/ RefuseApply \/ ApplyFailure \/ UNCHANGED qualVars
  <2>1. UNCHANGED <<quals, qualVersions, revived>>
    BY <1>11 DEF RefuseVersion, ImportFile, BeginApply, RefuseApply,
                 ApplyFailure, qualVars
  <2>2. import' \in ImportState /\ applying' \in Rows \cup {{}}
    BY <1>1, <1>11 DEF RefuseVersion, ImportFile, BeginApply, RefuseApply,
                       ApplyFailure, qualVars, ImportState
  <2>3. /\ renewals' \in [Renewals -> Renewal \cup {NoRenewal}]
        /\ \A s \in Renewals : renewals'[s] \in {renewals[s], NoRenewal}
    BY <1>1, <1>11 DEF RefuseVersion, ImportFile, BeginApply, RefuseApply,
                       ApplyFailure, qualVars
  <2>4. \A s \in Renewals : RenewalInv(renewals[s])'
    BY <2>3 DEF QualInv, RenewalInv
  <2>5. CertificatesUnique' /\ \A p \in Saved' : Proper(quals'[p])
    BY <2>1 DEF QualInv, CertificatesUnique, Saved
  <2> QED BY <1>1, <2>1, <2>2, <2>3, <2>4, <2>5 DEF QualInv, QualTypeOK
<1>12. CASE EndApply
  <2>1. PICK place \in Places(applying) : quals' = Placed(place, applying)
    BY <1>12 DEF EndApply
  <2>2. /\ \A cert \in applying : ~CertExists(cert, {})
        /\ qualVersions' = [q \in Quals |-> IF quals'[q] # quals[q] THEN 1
                                            ELSE qualVersions[q]]
        /\ import' = "succeeded" /\ applying' = {}
        /\ UNCHANGED <<renewals, revived>>
    BY <1>12 DEF EndApply
  <2>3. /\ quals' \in [Quals -> Qualification] /\ CertificatesUnique'
        /\ \A p \in Saved' : Proper(quals'[p])
    BY <1>1, <2>1, <2>2, PlacingKeepsCertificates
  <2>4. qualVersions' \in [Quals -> Nat]
    BY <1>1, <2>2
  <2>5. \A s \in Renewals : RenewalInv(renewals[s])'
    BY <2>2 DEF QualInv, RenewalInv
  <2> QED BY <1>1, <2>2, <2>3, <2>4, <2>5 DEF QualInv, QualTypeOK, ImportState
<1> QED BY <1>6, <1>7, <1>8, <1>9, <1>10, <1>11, <1>12 DEF QualNext

(* A certificate number is in the library once, however many creations,    *)
(* updates and new versions overlap with an import of any number of rows;  *)
(* only a qualification that was saved from an old copy is excepted        *)
(* (QualificationService.create, update, add_version,                      *)
(* remember_import_result).                                                *)
THEOREM CertificatesCorrect == QualSpec => [](QualTypeOK /\ CertificatesUnique)
<1>1. QualInv => QualTypeOK /\ CertificatesUnique
  BY DEF QualInv
<1> QED BY <1>1, QualStart, QualStep, PTL DEF QualSpec

(* What was imported stays marked as imported and nothing else is: copies  *)
(* held by suspended requests have the mark their qualification has, and   *)
(* the rows of an import come in while there is no other.                  *)
Imported == {q \in Saved : quals[q].imported}

ImportInv ==
  /\ applying # {} => import = "queued"
  /\ \A r \in Renewals : renewals[r] # NoRenewal =>
       quals[renewals[r].of].imported = renewals[r].copy.imported
  /\ \A r \in Renewals : renewals[r] # NoRenewal => renewals[r].of \in Saved
  /\ ImportIsWhole

LEMMA ImportStart == QualInit => ImportInv
<1> SUFFICES ASSUME QualInit PROVE ImportInv
  OBVIOUS
<1>1. Saved = {} /\ import = "unknown" /\ applying = {}
      /\ \A r \in Renewals : renewals[r] = NoRenewal
  BY DEF QualInit, Saved
<1>2. ImportIsWhole
  BY <1>1 DEF ImportIsWhole
<1> QED BY <1>1, <1>2 DEF ImportInv

(* What the import depends on has not changed. *)
LEMMA MarksKept ==
  ASSUME ImportInv, QualInv, Imported' = Imported, Saved \subseteq Saved',
         \A p \in Quals : quals'[p].imported = quals[p].imported,
         \A r \in Renewals : renewals'[r] \in {renewals[r], NoRenewal},
         import' = import, applying' \in {applying, {}}
  PROVE  ImportInv'
<1>1. ImportIsWhole'
  BY DEF ImportInv, ImportIsWhole, Imported
<1>2. \A r \in Renewals : renewals[r] # NoRenewal => renewals[r].of \in Quals
  BY DEF QualInv, QualTypeOK, Renewal
<1> QED BY <1>1, <1>2 DEF ImportInv

(* One qualification is saved with the mark it had. *)
LEMMA SavingKeepsMarks ==
  ASSUME ImportInv, QualInv, NEW q \in Quals, NEW x, Proper(x),
         x.imported = quals[q].imported, quals' = [quals EXCEPT ![q] = x],
         \A r \in Renewals : renewals'[r] \in {renewals[r], NoRenewal},
         import' = import, applying' = applying
  PROVE  ImportInv'
<1>1. \A p \in Quals : quals'[p] = IF p = q THEN x ELSE quals[p]
  BY DEF QualInv, QualTypeOK
<1>2. x # Unused /\ Unused.imported = FALSE
  BY QualificationAssumption DEF Proper, Unused
<1>3. Saved' = Saved \cup {q}
  BY <1>1, <1>2 DEF Saved
<1>4. \A p \in Quals : quals'[p].imported = quals[p].imported
  BY <1>1
<1>5. \A p \in Quals : p \notin Saved => ~quals[p].imported
  BY <1>2 DEF Saved
<1>6. Imported' = Imported
  BY <1>3, <1>4, <1>5 DEF Imported, Saved
<1> QED BY <1>3, <1>4, <1>6, MarksKept

(* As many qualifications are imported as there are rows. *)
LEMMA EveryRowIsPlaced ==
  ASSUME QualInv, ImportInv, EndApply
  PROVE  ImportInv'
<1>1. PICK place \in Places(applying) : quals' = Placed(place, applying)
  BY DEF EndApply
<1>2. /\ applying # {} /\ import' = "succeeded" /\ applying' = {}
      /\ UNCHANGED renewals /\ applying \in Rows /\ IsFiniteSet(applying)
      /\ applying \subseteq Certs /\ Imported = {}
  <2>1. applying # {} /\ applying \in Rows
    BY DEF EndApply, QualInv, QualTypeOK
  <2>2. Imported = {}
    BY <2>1 DEF ImportInv, ImportIsWhole, Imported
  <2> QED BY <2>1, <2>2, QualificationAssumption DEF EndApply
<1>3. place \in [applying -> Quals \ Saved] /\ Injective(place)
  BY <1>1 DEF Places
<1> DEFINE Taken == {place[cert] : cert \in applying}
<1>4. \A p \in Quals : /\ p \in Taken => /\ quals'[p].imported /\ quals'[p] # Unused
                                         /\ p \notin Saved
                       /\ p \notin Taken => quals'[p] = quals[p]
  <2> SUFFICES ASSUME NEW p \in Quals
               PROVE  /\ p \in Taken => /\ quals'[p].imported /\ quals'[p] # Unused
                                        /\ p \notin Saved
                      /\ p \notin Taken => quals'[p] = quals[p]
    OBVIOUS
  <2>1. CASE p \in Taken
    <3>1. PICK cert \in applying : place[cert] = p
      BY <2>1
    <3>2. quals'[p] = New(CHOOSE c \in applying : place[c] = p, TRUE)
      BY <1>1, <3>1 DEF Placed
    <3>3. quals'[p].imported /\ quals'[p].version = 1
      BY <3>2 DEF New
    <3> QED BY <1>3, <2>1, <3>1, <3>3 DEF Unused
  <2>2. CASE p \notin Taken
    BY <1>1, <2>2 DEF Placed
  <2> QED BY <2>1, <2>2
<1>5. Taken \subseteq Quals
  BY <1>3
<1>6. Imported' = Taken
  <2>1. \A p \in Quals : p \in Imported' <=> quals'[p] # Unused /\ quals'[p].imported
    BY DEF Imported, Saved
  <2>2. \A p \in Quals : p \in Imported <=> quals[p] # Unused /\ quals[p].imported
    BY DEF Imported, Saved
  <2>3. Imported' \subseteq Quals
    BY DEF Imported, Saved
  <2> HIDE DEF Taken
  <2> QED BY <1>2, <1>4, <1>5, <2>1, <2>2, <2>3
<1>7. Cardinality(Taken) = Cardinality(applying)
  <2>1. place \in Bijection(applying, Taken)
    <3>1. place \in [applying -> Taken]
      BY <1>3
    <3>2. \A a, b \in applying : place[a] = place[b] => a = b
      BY <1>3 DEF Injective
    <3>3. \A p \in Taken : \E cert \in applying : place[cert] = p
      OBVIOUS
    <3> HIDE DEF Taken
    <3> QED BY <3>1, <3>2, <3>3 DEF Bijection, Injection, Surjection, IsInjective
  <2> QED BY <1>2, <2>1, FS_Bijection DEF ExistsBijection
<1>8. ImportIsWhole'
  BY <1>2, <1>6, <1>7 DEF ImportIsWhole, Imported
<1>9. \A r \in Renewals : renewals'[r] # NoRenewal =>
        /\ quals'[renewals'[r].of].imported = renewals'[r].copy.imported
        /\ renewals'[r].of \in Saved'
  <2> SUFFICES ASSUME NEW r \in Renewals, renewals'[r] # NoRenewal
               PROVE  /\ quals'[renewals'[r].of].imported = renewals'[r].copy.imported
                      /\ renewals'[r].of \in Saved'
    OBVIOUS
  <2>1. renewals'[r] = renewals[r]
    BY <1>2
  <2>2. renewals[r].of \in Saved /\ renewals[r].of \in Quals
        /\ quals[renewals[r].of].imported = renewals[r].copy.imported
    BY <2>1 DEF ImportInv, Saved
  <2>3. quals'[renewals[r].of] = quals[renewals[r].of]
    BY <1>4, <2>2
  <2> QED BY <2>1, <2>2, <2>3 DEF Saved
<1> QED BY <1>2, <1>8, <1>9 DEF ImportInv

LEMMA ImportStep ==
  QualInv /\ ImportInv /\ [QualNext]_qualVars => ImportInv'
<1> SUFFICES ASSUME QualInv, ImportInv, [QualNext]_qualVars PROVE ImportInv'
  OBVIOUS
<1>1. /\ quals \in [Quals -> Qualification] /\ MaxQualVersion \in Nat \ {0}
      /\ renewals \in [Renewals -> Renewal \cup {NoRenewal}]
      /\ \A q \in Saved : Proper(quals[q])
  BY QualificationAssumption DEF QualInv, QualTypeOK
<1>2. ASSUME NEW q \in Quals, NEW cert \in Certs, Create(q, cert) PROVE ImportInv'
  <2> DEFINE x == New(cert, FALSE)
  <2>1. /\ quals' = [quals EXCEPT ![q] = x] /\ quals[q] = Unused
        /\ UNCHANGED <<renewals, import, applying>>
    BY <1>2 DEF Create, Saved
  <2>2. Proper(x) /\ x.imported = quals[q].imported
    BY <2>1 DEF New, Proper, Unused
  <2> HIDE DEF x
  <2> QED BY <2>1, <2>2, SavingKeepsMarks
<1>3. ASSUME NEW q \in Quals, NEW cert \in Certs, UpdateQualification(q, cert)
      PROVE  ImportInv'
  <2> DEFINE g == [quals[q] EXCEPT !.cert = cert]
             x == [g EXCEPT !.version = @ + 1]
  <2>1. /\ q \in Saved /\ quals' = [quals EXCEPT ![q] = x]
        /\ UNCHANGED <<renewals, import, applying>>
    BY <1>1, <1>3 DEF UpdateQualification, Active
  <2>2. /\ quals[q] \in Qualification /\ quals[q].version \in Nat
        /\ g.cert = cert /\ g.version = quals[q].version
        /\ g.imported = quals[q].imported /\ g \in Qualification
    BY <1>1 DEF Qualification
  <2> HIDE DEF g
  <2>3. x.cert = cert /\ x.version = quals[q].version + 1 /\ x.imported = quals[q].imported
    BY <2>2 DEF Qualification
  <2> HIDE DEF x
  <2>4. Proper(x)
    BY <2>2, <2>3 DEF Proper
  <2> QED BY <2>1, <2>3, <2>4, SavingKeepsMarks
<1>4. ASSUME NEW q \in Quals, Delete(q) PROVE ImportInv'
  <2> DEFINE g == [quals[q] EXCEPT !.deleted = TRUE]
             x == [g EXCEPT !.version = @ + 1]
  <2>1. /\ q \in Saved /\ quals' = [quals EXCEPT ![q] = x]
        /\ UNCHANGED <<renewals, import, applying>>
    BY <1>1, <1>4 DEF Delete, Active
  <2>2. /\ quals[q] \in Qualification /\ quals[q].version \in Nat
        /\ g.cert = quals[q].cert /\ g.version = quals[q].version
        /\ g.imported = quals[q].imported /\ g \in Qualification
    <3>1. quals[q] \in Qualification /\ quals[q].version \in Nat
      BY <1>1 DEF Qualification
    <3>2. /\ g.cert = quals[q].cert /\ g.version = quals[q].version
          /\ g.imported = quals[q].imported
      BY <3>1 DEF Qualification
    <3>3. g \in Qualification
      BY <3>1 DEF Qualification
    <3> QED BY <3>1, <3>2, <3>3
  <2> HIDE DEF g
  <2>3. x.cert = quals[q].cert /\ x.version = quals[q].version + 1
        /\ x.imported = quals[q].imported
    BY <2>2 DEF Qualification
  <2> HIDE DEF x
  <2>4. Proper(x)
    BY <1>1, <2>1, <2>2, <2>3 DEF Proper
  <2> QED BY <2>1, <2>3, <2>4, SavingKeepsMarks
<1>5. ASSUME NEW r \in Renewals, EndVersion(r) PROVE ImportInv'
  <2> DEFINE q == renewals[r].of
             old == renewals[r].copy
             x == [old EXCEPT !.version = @ + 1]
  <2>1. /\ renewals[r] # NoRenewal /\ quals' = [quals EXCEPT ![q] = x]
        /\ renewals' = [renewals EXCEPT ![r] = NoRenewal]
        /\ UNCHANGED <<import, applying>>
    BY <1>5 DEF EndVersion
  <2>2. /\ q \in Quals /\ old \in Qualification /\ Proper(old)
        /\ quals[q].imported = old.imported
    BY <1>1, <2>1 DEF QualInv, RenewalInv, Renewal, ImportInv
  <2>3. \A s \in Renewals : renewals'[s] \in {renewals[s], NoRenewal}
    BY <1>1, <2>1
  <2> HIDE DEF q, old
  <2>4. x.imported = quals[q].imported /\ Proper(x)
    BY <1>1, <2>2 DEF Qualification, Proper
  <2> HIDE DEF x
  <2> QED BY <2>1, <2>2, <2>3, <2>4, SavingKeepsMarks
<1>6. ASSUME NEW r \in Renewals, NEW q \in Quals, BeginVersion(r, q)
      PROVE  ImportInv'
  <2>1. /\ q \in Saved
        /\ renewals' = [renewals EXCEPT ![r] = [of |-> q, copy |-> quals[q]]]
        /\ UNCHANGED <<quals, import, applying>>
    BY <1>6 DEF BeginVersion, Active
  <2>2. \A s \in Renewals : renewals'[s] = IF s = r THEN [of |-> q, copy |-> quals[q]]
                                           ELSE renewals[s]
    BY <1>1, <2>1
  <2>3. Saved' = Saved /\ ImportIsWhole'
    BY <2>1 DEF Saved, ImportInv, ImportIsWhole
  <2> QED BY <2>1, <2>2, <2>3 DEF ImportInv
<1>7. CASE \/ \E r \in Renewals : RefuseVersion(r)
           \/ RefuseApply \/ UNCHANGED qualVars
  <2>1. UNCHANGED <<quals, import>> /\ applying' \in {applying, {}}
        /\ \A s \in Renewals : renewals'[s] \in {renewals[s], NoRenewal}
    BY <1>1, <1>7 DEF RefuseVersion, RefuseApply, qualVars
  <2>2. Saved' = Saved /\ Imported' = Imported
    BY <2>1 DEF Saved, Imported
  <2> QED BY <2>1, <2>2, MarksKept
<1>8. CASE ImportFile \/ (\E rows \in Rows : BeginApply(rows)) \/ ApplyFailure
  <2>1. /\ UNCHANGED <<quals, renewals>> /\ import # "succeeded"
        /\ import' # "succeeded"
        /\ applying' # {} => import' = "queued"
    BY <1>8 DEF ImportFile, BeginApply, ApplyFailure, ImportInv
  <2>2. Saved' = Saved /\ ImportIsWhole'
    BY <2>1 DEF Saved, ImportInv, ImportIsWhole
  <2> QED BY <2>1, <2>2 DEF ImportInv
<1> QED BY <1>2, <1>3, <1>4, <1>5, <1>6, <1>7, <1>8, EveryRowIsPlaced DEF QualNext

(* The rows of an import are in the library together and with the outcome  *)
(* of its job, or none of them is (apply_import_result,                     *)
(* remember_import_result), however creations, updates, deletions and new   *)
(* versions overlap with it, for every set of rows that a job may report:   *)
(* with Rows a single set, exactly as many as that one has.                 *)
THEOREM WholeImports == QualSpec => []ImportIsWhole
<1>1. QualInit => QualInv /\ ImportInv
  BY QualStart, ImportStart
<1>2. QualInv /\ ImportInv /\ [QualNext]_qualVars => (QualInv /\ ImportInv)'
  BY QualStep, ImportStep
<1>3. ImportInv => ImportIsWhole
  BY DEF ImportInv
<1> QED BY <1>1, <1>2, <1>3, PTL DEF QualSpec

-----------------------------------------------------------------------------
(* The material list                                                       *)

(* The status of one material tells where its file comes from.             *)
Told(x) ==
  /\ x.status = "pending" => x.file = NoFile
  /\ x.status = "have" => x.file \in PersonFiles
  /\ x.status = "template" => x.file \in JobFiles

(* What an action other than a binding leaves of the binders, and what a   *)
(* binder awaits: a file that a person has, for a material it has read.    *)
AwaitInv(b) ==
  /\ b.rest \subseteq Materials \X PersonFiles
  /\ b.target # NoFile =>
       /\ b.target \in Materials /\ b.copy \in Material /\ b.file \in PersonFiles

MatInv ==
  /\ list \in [Materials -> Material]
  /\ \A m \in Materials : Told(list[m])
  /\ binders \in [Binders -> Binder]
  /\ \A b \in Binders : AwaitInv(binders[b])

LEMMA MaterialFacts ==
  /\ NoMaterial \in Material /\ Told(NoMaterial)
  /\ Pending \in Material /\ Told(Pending)
  /\ NoBinder \in Binder /\ AwaitInv(NoBinder)
<1>1. NoMaterial \in Material /\ Told(NoMaterial)
  BY MaterialsAssumption DEF NoMaterial, Material, File, Told
<1> DEFINE g == [NoMaterial EXCEPT !.life = "present"]
           x == [g EXCEPT !.version = 1]
<1>2. g \in Material /\ Told(g)
  BY <1>1 DEF Material, Told
<1> HIDE DEF g
<1>3. x \in Material /\ Told(x)
  BY <1>2, MaterialsAssumption DEF Material, Told
<1>4. Pending = x
  BY DEF Pending, g
<1>5. NoBinder \in Binder /\ AwaitInv(NoBinder)
  BY <1>1 DEF NoBinder, Binder, File, AwaitInv
<1> QED BY <1>1, <1>3, <1>4, <1>5

LEMMA MatStart == MatInit => MatInv
  BY MaterialFacts DEF MatInit, MatInv

(* A material that is edited within the bound stays one, and keeps all but *)
(* its version.                                                            *)
LEMMA EditedStays ==
  ASSUME NEW x \in Material, Room(x)
  PROVE  /\ Edited(x) \in Material /\ Edited(x).file = x.file
         /\ Edited(x).status = x.status
  BY MaterialsAssumption DEF Edited, Room, Material

LEMMA BoundStays ==
  ASSUME NEW x \in Material, Room(x), NEW f \in File,
         NEW status \in {"pending", "have", "template"}
  PROVE  /\ BoundTo(x, f, status) \in Material
         /\ BoundTo(x, f, status).file = f
         /\ BoundTo(x, f, status).status = status
<1> DEFINE g == [x EXCEPT !.file = f]
           h == [g EXCEPT !.status = status]
<1>1. g \in Material /\ g.file = f /\ g.version = x.version
  BY DEF Material
<1> HIDE DEF g
<1>2. /\ h \in Material /\ h.file = f /\ h.status = status
      /\ h.version = x.version
  BY <1>1 DEF Material
<1>3. BoundTo(x, f, status) = Edited(h)
  BY DEF BoundTo, g
<1> HIDE DEF h
<1>4. Room(h)
  BY <1>2 DEF Room
<1> QED BY <1>2, <1>3, <1>4, EditedStays

LEMMA SavingKeepsMatInv ==
  ASSUME MatInv, NEW m \in Materials, NEW x \in Material, Told(x),
         SaveMaterial(m, x)
  PROVE  MatInv'
  BY DEF SaveMaterial, MatInv

(* A job of which a result awaits its files generates files. *)
JobsInv ==
  /\ phase \in Phases
  /\ matJobs \in [MatJobs -> MatJob]
  /\ newest \in [MatKinds -> 0..MaxMatJobs]
  /\ \A j \in MatJobs : matJobs[j].state = "applying" => matJobs[j].kind = "template"

LEMMA JobsStart == MatInit => JobsInv
<1>1. NoMatJob \in MatJob /\ NoMatJob.state = "none"
  BY MaterialFacts DEF NoMatJob, MatJob, Snapshot, SnapshotOf, Material
<1> QED BY <1>1, MaterialsAssumption DEF MatInit, JobsInv, Phases

LEMMA JobsStep == JobsInv /\ MatInv /\ [MatNext]_matVars => JobsInv'
<1> SUFFICES ASSUME JobsInv, MatInv, [MatNext]_matVars PROVE JobsInv'
  OBVIOUS
<1>1. /\ phase \in Phases /\ matJobs \in [MatJobs -> MatJob]
      /\ newest \in [MatKinds -> 0..MaxMatJobs]
      /\ list \in [Materials -> Material] /\ MaxMatJobs \in Nat
      /\ \A j \in MatJobs : matJobs[j].state = "applying"
                            => matJobs[j].kind = "template"
  BY MaterialsAssumption DEF JobsInv, MatInv
<1>2. NoMatJob \in MatJob
  BY MaterialFacts DEF NoMatJob, MatJob, Snapshot, SnapshotOf, Material
<1>3. ASSUME NEW j \in MatJobs, NEW job \in MatJob,
             job.state = "applying" => job.kind = "template",
             matJobs' = [matJobs EXCEPT ![j] = job], phase' \in Phases,
             newest' \in [MatKinds -> 0..MaxMatJobs]
      PROVE  JobsInv'
  BY <1>1, <1>3 DEF JobsInv
<1>4. ASSUME NEW j \in MatJobs
      PROVE  Settled(matJobs[j]) \in MatJob /\ Settled(matJobs[j]).state = "settled"
  <2> DEFINE g == [NoMatJob EXCEPT !.kind = matJobs[j].kind]
             h == [g EXCEPT !.state = "settled"]
  <2>1. g \in MatJob
    BY <1>1, <1>2 DEF MatJob
  <2> HIDE DEF g
  <2>2. h \in MatJob /\ h.state = "settled"
    BY <2>1 DEF MatJob
  <2>3. Settled(matJobs[j]) = h
    BY DEF Settled, g
  <2> QED BY <2>2, <2>3
<1>5. ASSUME NEW j \in MatJobs, NEW state \in {"out", "applying"},
             state = "applying" => matJobs[j].kind = "template"
      PROVE  LET job == [matJobs[j] EXCEPT !.state = state]
             IN job \in MatJob /\ (job.state = "applying" => job.kind = "template")
  BY <1>1, <1>5 DEF MatJob
<1>6. ASSUME NEW j \in MatJobs, NEW kind \in MatKinds, NEW asked \in SUBSET Materials,
             EnqueueJob(j, kind, asked)
      PROVE  JobsInv'
  <2> DEFINE seen == [m \in Materials |->
                       SnapshotOf(IF m \in asked THEN list[m] ELSE NoMaterial)]
             g == [NoMatJob EXCEPT !.kind = kind]
             h == [g EXCEPT !.asked = asked]
             k == [h EXCEPT !.state = "dispatching"]
             job == [k EXCEPT !.seen = seen]
  <2>1. /\ matJobs' = [matJobs EXCEPT ![j] = job]
        /\ phase' \in Phases /\ newest' = newest
    BY <1>6 DEF EnqueueJob, Phases
  <2>2. \A x \in Material : SnapshotOf(x) \in Snapshot
    BY DEF SnapshotOf, Snapshot, Material
  <2>3. seen \in [Materials -> Snapshot]
    BY <1>1, <2>2, MaterialFacts
  <2> HIDE DEF seen
  <2>4. g \in MatJob
    BY <1>2 DEF MatJob
  <2> HIDE DEF g
  <2>5. h \in MatJob
    BY <2>4 DEF MatJob
  <2> HIDE DEF h
  <2>6. k \in MatJob /\ k.state = "dispatching"
    BY <2>5 DEF MatJob
  <2> HIDE DEF k
  <2>7. job \in MatJob /\ job.state = "dispatching"
    BY <2>3, <2>6 DEF MatJob
  <2> HIDE DEF job
  <2> QED BY <1>1, <1>3, <2>1, <2>7
<1>7. ASSUME NEW j \in MatJobs, Dispatched(j) PROVE JobsInv'
  <2>0. j \in 0..MaxMatJobs
    BY <1>1 DEF MatJobs
  <2>1. newest' \in [MatKinds -> 0..MaxMatJobs] /\ phase' = phase
    BY <1>1, <1>7, <2>0 DEF Dispatched
  <2>2. matJobs' = [matJobs EXCEPT ![j] = [matJobs[j] EXCEPT !.state = "out"]]
    BY <1>1, <1>7 DEF Dispatched
  <2> QED BY <1>1, <1>3, <1>5, <2>1, <2>2
<1>8. ASSUME NEW j \in MatJobs,
             matJobs' = [matJobs EXCEPT ![j] = Settled(@)],
             phase' \in {"failed", phase}, newest' = newest
      PROVE  JobsInv'
  <2>1. matJobs' = [matJobs EXCEPT ![j] = Settled(matJobs[j])]
    BY <1>1, <1>8
  <2> QED BY <1>1, <1>3, <1>4, <1>8, <2>1 DEF Phases
<1>9. ASSUME NEW j \in MatJobs, BeginTemplateResult(j) \/ RefuseTemplateResult(j)
      PROVE  JobsInv'
  <2>1. /\ phase' = phase /\ newest' = newest
        /\ \E state \in {"out", "applying"} :
             /\ state = "applying" => matJobs[j].kind = "template"
             /\ matJobs' = [matJobs EXCEPT ![j] = [matJobs[j] EXCEPT !.state = state]]
    BY <1>1, <1>9 DEF BeginTemplateResult, RefuseTemplateResult
  <2> QED BY <1>1, <1>3, <1>5, <2>1
<1>10. ASSUME NEW j \in MatJobs, DispatchRefused(j) PROVE JobsInv'
  BY <1>8, <1>10 DEF DispatchRefused
<1>11. ASSUME NEW j \in MatJobs, NEW named, NEW value, WriteResult(j, named, value)
       PROVE  JobsInv'
  BY <1>8, <1>11 DEF WriteResult
<1>12. CASE ListNext \/ BindingNext \/ UNCHANGED matVars
  <2>1. phase' \in Phases /\ UNCHANGED <<matJobs, newest>>
    BY <1>1, <1>12 DEF ListNext, BindingNext, matVars, CreateMaterial, UpdateMaterial,
         DeleteMaterial, UnbindMaterialFile, SaveMaterial, ApplyParseResult,
         StatusMoves, Phases, BeginBinding, ReadTarget, SaveTarget, EndBinding
  <2> QED BY <1>1, <2>1 DEF JobsInv
<1> QED BY <1>6, <1>7, <1>9, <1>10, <1>11, <1>12
     DEF MatNext, ResultNext, ApplyMatchResult, EndTemplateResult

LEMMA MatStep == JobsInv /\ MatInv /\ [MatNext]_matVars => MatInv'
<1> SUFFICES ASSUME JobsInv, MatInv, [MatNext]_matVars PROVE MatInv'
  OBVIOUS
<1>1. /\ list \in [Materials -> Material] /\ \A m \in Materials : Told(list[m])
      /\ binders \in [Binders -> Binder] /\ \A b \in Binders : AwaitInv(binders[b])
  BY DEF MatInv
<1>2. ASSUME NEW m \in Materials, CreateMaterial(m) PROVE MatInv'
  BY <1>2, MaterialFacts, SavingKeepsMatInv DEF CreateMaterial
<1>3. ASSUME NEW m \in Materials, NEW s \in Sources, UpdateMaterial(m, s)
      PROVE  MatInv'
  <2> DEFINE g == [list[m] EXCEPT !.source = s]
  <2>1. Room(list[m]) /\ SaveMaterial(m, Edited(g))
    BY <1>3 DEF UpdateMaterial
  <2>2. /\ g \in Material /\ g.file = list[m].file /\ g.status = list[m].status
        /\ Room(g)
    BY <1>1, <2>1 DEF Material, Room
  <2> HIDE DEF g
  <2>3. Edited(g) \in Material /\ Told(Edited(g))
    BY <1>1, <2>2, EditedStays DEF Told
  <2> QED BY <2>1, <2>3, SavingKeepsMatInv
<1>4. ASSUME NEW m \in Materials, DeleteMaterial(m) PROVE MatInv'
  <2> DEFINE g == [list[m] EXCEPT !.life = "deleted"]
  <2>1. SaveMaterial(m, g)
    BY <1>4 DEF DeleteMaterial
  <2>2. g \in Material /\ Told(g)
    BY <1>1 DEF Material, Told
  <2> QED BY <2>1, <2>2, SavingKeepsMatInv
<1>5. ASSUME NEW m \in Materials, UnbindMaterialFile(m) PROVE MatInv'
  <2>1. Room(list[m]) /\ SaveMaterial(m, BoundTo(list[m], NoFile, "pending"))
    BY <1>5 DEF UnbindMaterialFile, Unbound, BoundTo
  <2>2. /\ BoundTo(list[m], NoFile, "pending") \in Material
        /\ Told(BoundTo(list[m], NoFile, "pending"))
    BY <1>1, <2>1, BoundStays DEF Told, File
  <2> QED BY <2>1, <2>2, SavingKeepsMatInv
<1>6. ASSUME NEW found \in SUBSET Materials, ApplyParseResult(found)
      PROVE  MatInv'
  BY <1>1, <1>6, MaterialFacts DEF ApplyParseResult, MatInv
<1>7. ASSUME NEW j \in MatJobs, NEW named \in SUBSET Materials, NEW value \in File \cup Sources,
             WriteResult(j, named, value),
             matJobs[j].kind = "match" => value \in Sources,
             matJobs[j].kind # "match" => value \in JobFiles
      PROVE  MatInv'
  <2>1. /\ \A m \in named : Room(list[m])
        /\ list' = [m \in Materials |->
             IF m \notin named THEN list[m]
             ELSE IF matJobs[j].kind = "match"
                  THEN Edited([list[m] EXCEPT !.source = value])
                  ELSE BoundTo(list[m], value, "template")]
        /\ binders' = binders
    BY <1>7 DEF WriteResult
  <2>2. ASSUME NEW m \in Materials
        PROVE  list'[m] \in Material /\ Told(list'[m])
    <3>1. CASE m \notin named
      BY <1>1, <2>1, <3>1
    <3>2. CASE m \in named /\ matJobs[j].kind = "match"
      <4> DEFINE g == [list[m] EXCEPT !.source = value]
      <4>1. list'[m] = Edited(g)
        BY <2>1, <3>2
      <4>2. /\ g \in Material /\ g.file = list[m].file
            /\ g.status = list[m].status /\ Room(g)
        BY <1>1, <1>7, <2>1, <3>2 DEF Material, Room
      <4> HIDE DEF g
      <4> QED BY <1>1, <4>1, <4>2, EditedStays DEF Told
    <3>3. CASE m \in named /\ matJobs[j].kind # "match"
      <4>1. list'[m] = BoundTo(list[m], value, "template")
        BY <2>1, <3>3
      <4>2. value \in JobFiles /\ value \in File
        BY <1>7, <3>3 DEF File
      <4>3. list[m] \in Material /\ Room(list[m])
        BY <1>1, <2>1, <3>3
      <4> QED BY <4>1, <4>2, <4>3, BoundStays DEF Told
    <3> QED BY <3>1, <3>2, <3>3
  <2>3. list' \in [Materials -> Material]
    BY <2>1, <2>2
  <2> QED BY <1>1, <2>1, <2>2, <2>3 DEF MatInv
<1>8. ASSUME NEW b \in Binders, NEW wanted \in SUBSET (Materials \X PersonFiles),
             NEW replace \in BOOLEAN, BeginBinding(b, wanted, replace)
      PROVE  MatInv'
  <2> DEFINE g == [NoBinder EXCEPT !.rest = wanted]
             x == [g EXCEPT !.replace = replace]
  <2>1. binders' = [binders EXCEPT ![b] = x] /\ list' = list
    BY <1>8 DEF BeginBinding
  <2>2. g \in Binder /\ g.target = NoFile /\ g.rest = wanted
    BY MaterialFacts DEF NoBinder, Binder
  <2> HIDE DEF g
  <2>3. x \in Binder /\ AwaitInv(x)
    BY <2>2 DEF Binder, AwaitInv
  <2> HIDE DEF x
  <2> QED BY <1>1, <2>1, <2>3 DEF MatInv
<1>9. ASSUME NEW b \in Binders, ReadTarget(b) PROVE MatInv'
  <2>1. PICK w \in binders[b].rest :
          LET left == [binders[b] EXCEPT !.rest = @ \ {w}]
          IN  binders' = [binders EXCEPT ![b] =
                IF w[1] \in Held /\ (list[w[1]].file = NoFile \/ left.replace)
                THEN [left EXCEPT !.target = w[1], !.copy = list[w[1]], !.file = w[2]]
                ELSE left] /\ list' = list
    BY <1>9 DEF ReadTarget
  <2>2. /\ binders[b] \in Binder /\ AwaitInv(binders[b])
        /\ w[1] \in Materials /\ w[2] \in PersonFiles
    BY <1>1 DEF AwaitInv
  <2> DEFINE g == [binders[b] EXCEPT !.rest = @ \ {w}]
             h == [g EXCEPT !.target = w[1]]
             k == [h EXCEPT !.copy = list[w[1]]]
             x == [k EXCEPT !.file = w[2]]
  <2>3. binders' = [binders EXCEPT ![b] = g] \/ binders' = [binders EXCEPT ![b] = x]
    <3> DEFINE y == [g EXCEPT !.target = w[1], !.copy = list[w[1]], !.file = w[2]]
    <3>1. CASE binders' = [binders EXCEPT ![b] = g]
      BY <3>1
    <3>2. CASE binders' = [binders EXCEPT ![b] = y]
      BY <3>2
    <3> QED BY <2>1, <3>1, <3>2
  <2>4. /\ g \in Binder /\ AwaitInv(g)
    BY <2>2 DEF Binder, AwaitInv
  <2> HIDE DEF g
  <2>5. h \in Binder /\ h.rest = g.rest /\ h.target = w[1]
    BY <2>2, <2>4 DEF Binder
  <2> HIDE DEF h
  <2>6. k \in Binder /\ k.rest = g.rest /\ k.target = w[1] /\ k.copy \in Material
    BY <1>1, <2>2, <2>5 DEF Binder
  <2> HIDE DEF k
  <2>7. /\ x \in Binder /\ x.rest = g.rest /\ x.target = w[1]
        /\ x.copy \in Material /\ x.file = w[2]
    BY <2>2, <2>6 DEF Binder, File
  <2>8. AwaitInv(x)
    BY <2>2, <2>4, <2>7 DEF AwaitInv
  <2> HIDE DEF x
  <2> QED BY <1>1, <2>1, <2>3, <2>4, <2>7, <2>8 DEF MatInv
<1>10. ASSUME NEW b \in Binders, NEW ok \in BOOLEAN, SaveTarget(b, ok)
       PROVE  MatInv'
  <2> DEFINE q == binders[b]
             g == [NoBinder EXCEPT !.rest = q.rest]
             x == [g EXCEPT !.replace = q.replace]
             y == BoundTo(q.copy, q.file, "have")
  <2>1. /\ q.target # NoFile /\ Room(q.copy)
        /\ list' \in {list, [list EXCEPT ![q.target] = y]}
        /\ binders' = [binders EXCEPT ![b] = x]
    BY <1>10 DEF SaveTarget
  <2>2. q \in Binder /\ AwaitInv(q)
    BY <1>1
  <2>3. g \in Binder /\ g.target = NoFile /\ g.rest = q.rest
    BY <2>2, MaterialFacts DEF NoBinder, Binder
  <2> HIDE DEF g
  <2>4. x \in Binder /\ AwaitInv(x)
    BY <2>2, <2>3 DEF Binder, AwaitInv
  <2>5. /\ q.target \in Materials /\ q.copy \in Material
        /\ q.file \in PersonFiles /\ q.file \in File
    BY <2>1, <2>2 DEF AwaitInv, File
  <2> HIDE DEF x, q
  <2>6. y \in Material /\ Told(y)
    BY <2>1, <2>5, BoundStays DEF Told
  <2> HIDE DEF y
  <2> QED BY <1>1, <2>1, <2>4, <2>5, <2>6 DEF MatInv
<1>11. ASSUME NEW b \in Binders, EndBinding(b) PROVE MatInv'
  BY <1>1, <1>11, MaterialFacts DEF EndBinding, MatInv
<1>12. ASSUME NEW j \in MatJobs, NEW named \in SUBSET Materials, NEW s \in Sources,
              ApplyMatchResult(j, named, s)
       PROVE  MatInv'
  BY <1>7, <1>12 DEF ApplyMatchResult
<1>13. ASSUME NEW j \in MatJobs, NEW named \in SUBSET Materials, NEW f \in JobFiles,
              EndTemplateResult(j, named, f)
       PROVE  MatInv'
  BY <1>7, <1>13 DEF EndTemplateResult, JobsInv, File
<1>14. CASE UNCHANGED <<list, binders>>
  BY <1>14 DEF MatInv
<1>15. ASSUME NEW j \in MatJobs,
              \/ \E kind \in MatKinds, asked \in SUBSET Materials :
                   EnqueueJob(j, kind, asked)
              \/ Dispatched(j) \/ DispatchRefused(j)
              \/ BeginTemplateResult(j) \/ RefuseTemplateResult(j)
       PROVE  MatInv'
  BY <1>14, <1>15 DEF EnqueueJob, Dispatched, DispatchRefused,
                      BeginTemplateResult, RefuseTemplateResult
<1>16. CASE StatusMoves
  BY <1>14, <1>16 DEF StatusMoves
<1>17. CASE ListNext
  BY <1>2, <1>3, <1>4, <1>5, <1>6, <1>16, <1>17 DEF ListNext
<1>18. CASE BindingNext
  BY <1>8, <1>9, <1>10, <1>11, <1>18 DEF BindingNext
<1>19. CASE ResultNext
  BY <1>12, <1>13, <1>15, <1>19 DEF ResultNext
<1>20. CASE UNCHANGED matVars
  BY <1>14, <1>20 DEF matVars
<1> QED BY <1>17, <1>18, <1>19, <1>20 DEF MatNext

(* The status of every material tells where its file comes from, however   *)
(* many bindings and results save what they read before their awaits       *)
(* (bind_material_file, apply_template_result, unbind_material_file).      *)
THEOREM MaterialsCorrect == MatSpec => [](MatTypeOK /\ StatusTellsOrigin)
<1>1. JobsInv /\ MatInv => MatTypeOK
  BY DEF JobsInv, MatInv, MatTypeOK
<1>2. JobsInv /\ MatInv => StatusTellsOrigin
  <2> SUFFICES ASSUME MatInv, NEW m \in Materials
               PROVE  list[m].file \in CASE list[m].status = "pending"  -> {NoFile}
                                         [] list[m].status = "have"     -> PersonFiles
                                         [] list[m].status = "template" -> JobFiles
    BY DEF StatusTellsOrigin
  <2>1. Told(list[m]) /\ list[m].status \in {"pending", "have", "template"}
    BY DEF MatInv, Material
  <2> QED BY <2>1 DEF Told
<1> QED BY <1>1, <1>2, MatStart, JobsStart, MatStep, JobsStep, PTL DEF MatSpec

(* A result only ever replaces what its job was shown, for any number of   *)
(* jobs, edits and bindings (apply_material_match_result,                  *)
(* apply_template_result).                                                 *)
THEOREM ResultsReplaceWhatTheySaw == MatSpec => ReplacesWhatItSaw
<1> DEFINE Replaces ==
      \A j \in MatJobs, m \in Materials :
        matJobs'[j].state # matJobs[j].state /\ list'[m] # list[m] =>
        /\ list[m].life = "present"
        /\ list[m].file = matJobs[j].seen[m].file
        /\ list[m].version = matJobs[j].seen[m].version
<1>1. JobsInv /\ MatInv /\ [MatNext]_matVars => [Replaces]_matVars
  <2> SUFFICES ASSUME JobsInv, MatInv, MatNext PROVE Replaces
    OBVIOUS
  <2>1. CASE UNCHANGED list \/ UNCHANGED matJobs
    BY <2>1
  <2>2. ASSUME NEW j \in MatJobs, NEW named \in SUBSET Materials, NEW value,
               WriteResult(j, named, value)
        PROVE  Replaces
    <3>1. /\ \A i \in MatJobs : i # j => matJobs'[i] = matJobs[i]
          /\ \A m \in Materials : m \notin named => list'[m] = list[m]
          /\ \A m \in named : SameAsSeen(m, j)
      BY <2>2 DEF WriteResult, JobsInv
    <3> QED BY <3>1 DEF SameAsSeen, Held
  <2>3. CASE ListNext \/ BindingNext
    <3>1. UNCHANGED matJobs
      BY <2>3 DEF ListNext, BindingNext, CreateMaterial, UpdateMaterial,
         DeleteMaterial, UnbindMaterialFile, SaveMaterial, ApplyParseResult,
         StatusMoves, BeginBinding, ReadTarget, SaveTarget, EndBinding
    <3> QED BY <2>1, <3>1
  <2>4. ASSUME NEW j \in MatJobs,
               \/ \E kind \in MatKinds, asked \in SUBSET Materials :
                    EnqueueJob(j, kind, asked)
               \/ Dispatched(j) \/ DispatchRefused(j)
               \/ BeginTemplateResult(j) \/ RefuseTemplateResult(j)
        PROVE  Replaces
    BY <2>1, <2>4 DEF EnqueueJob, Dispatched, DispatchRefused,
                      BeginTemplateResult, RefuseTemplateResult
  <2>5. CASE ResultNext
    BY <2>2, <2>4, <2>5 DEF ResultNext, ApplyMatchResult, EndTemplateResult
  <2> QED BY <2>3, <2>5 DEF MatNext
<1> QED BY <1>1, MatStart, JobsStart, MatStep, JobsStep, PTL
     DEF MatSpec, ReplacesWhatItSaw

-----------------------------------------------------------------------------
(* Documents                                                               *)

(* The last version of a document is the current one. *)
LastIsCurrent(t) ==
  /\ {versions[i].number : i \in VersionsOf(t)} = 1..documents[t].current
  /\ \A i \in VersionsOf(t) :
       (\A j \in VersionsOf(t) : j <= i) =>
         /\ documents[t].current = versions[i].number
         /\ documents[t].latest = versions[i].text

(* A version that repeats another names one of its document and its text.  *)
Repeats(i) ==
  LET old == versions[i].source
  IN old # 0 => /\ old \in VersionsOf(versions[i].type)
                /\ versions[old].text = versions[i].text

(* No document has more versions than were ever saved. *)
DocInv ==
  /\ DocTypeOK
  /\ \A t \in DocTypes : LastIsCurrent(t) /\ documents[t].current <= Len(versions)
  /\ \A i \in DOMAIN versions : Repeats(i)

LEMMA DocStart == DocInit => DocInv
<1> SUFFICES ASSUME DocInit PROVE DocInv
  OBVIOUS
<1>1. NoDocText \in DocText
  BY DEF NoDocText, DocText
<1>2. DocTypeOK
  BY <1>1, DocumentAssumption DEF DocInit, DocTypeOK, Document
<1>3. \A t \in DocTypes : LastIsCurrent(t) /\ documents[t].current <= Len(versions)
  BY DEF DocInit, LastIsCurrent, VersionsOf
<1>4. \A i \in DOMAIN versions : Repeats(i)
  BY DEF DocInit
<1> QED BY <1>2, <1>3, <1>4 DEF DocInv

LEMMA NextVersionIs ==
  ASSUME DocInv, NEW t \in DocTypes
  PROVE  NextVersionNumber(t) = documents[t].current + 1
<1>1. documents[t] \in Document
  BY DEF DocInv, DocTypeOK
<1>2. documents[t].current \in Nat
  BY <1>1, DocumentAssumption DEF Document
<1>3. {versions[i].number : i \in VersionsOf(t)} = 1..documents[t].current
  BY DEF DocInv, LastIsCurrent
<1> QED BY <1>2, <1>3, NextOfInterval DEF NextVersionNumber

LEMMA AppendKeepsDocInv ==
  ASSUME DocInv, NEW t \in DocTypes, NEW text \in DocText, NEW source \in Nat,
         AppendVersion(t, text, source),
         source # 0 => source \in VersionsOf(t) /\ versions[source].text = text
  PROVE  DocInv'
<1> DEFINE n == documents[t].current
           v == [type |-> t, number |-> n + 1, text |-> text, source |-> source]
           d == [exists |-> TRUE, current |-> n + 1, latest |-> text]
<1>1. /\ documents \in [DocTypes -> Document] /\ versions \in Seq(DocVersion)
      /\ \A u \in DocTypes : LastIsCurrent(u) /\ documents[u].current <= Len(versions)
      /\ \A i \in DOMAIN versions : Repeats(i)
      /\ MaxVersions \in Nat /\ n \in Nat /\ Len(versions) \in Nat
  BY DocumentAssumption DEF DocInv, DocTypeOK, Document
<1>2. /\ Len(versions) < MaxVersions
      /\ versions' = Append(versions, v) /\ documents' = [documents EXCEPT ![t] = d]
  BY NextVersionIs DEF AppendVersion
<1>3. source \in 0..MaxVersions
  BY <1>1, <1>2, DocumentAssumption DEF VersionsOf
<1>4. v \in DocVersion /\ d \in Document
  BY <1>1, <1>2, <1>3 DEF DocVersion, Document
<1>5. DocTypeOK'
  BY <1>1, <1>2, <1>4 DEF DocTypeOK
<1>6. /\ v.type = t /\ v.number = n + 1 /\ v.text = text /\ v.source = source
      /\ d.current = n + 1 /\ d.latest = text
  OBVIOUS
<1> HIDE DEF v, d
<1>7. /\ DOMAIN versions = 1..Len(versions)
      /\ DOMAIN versions' = 1..(Len(versions) + 1)
      /\ Len(versions') = Len(versions) + 1
      /\ \A i \in DOMAIN versions : versions'[i] = versions[i]
      /\ versions'[Len(versions) + 1] = v
  BY <1>1, <1>2, <1>4
<1>8. /\ VersionsOf(t)' = VersionsOf(t) \cup {Len(versions) + 1}
      /\ \A u \in DocTypes : u # t => VersionsOf(u)' = VersionsOf(u)
      /\ \A u \in DocTypes : VersionsOf(u) \subseteq 1..Len(versions)
  BY <1>1, <1>6, <1>7 DEF VersionsOf
<1>9. ASSUME NEW u \in DocTypes
      PROVE  LastIsCurrent(u)' /\ documents'[u].current <= Len(versions')
  <2>1. CASE u # t
    <3>1. documents'[u] = documents[u] /\ VersionsOf(u)' = VersionsOf(u)
      BY <1>1, <1>2, <1>8, <2>1
    <3>2. \A i \in VersionsOf(u) : versions'[i] = versions[i]
      BY <1>7, <1>8
    <3>3. {versions'[i].number : i \in VersionsOf(u)'}
            = {versions[i].number : i \in VersionsOf(u)}
      BY <3>1, <3>2
    <3>4. documents[u].current \in Nat
      BY <1>1, <1>4 DEF Document
    <3> QED BY <1>1, <1>7, <3>1, <3>2, <3>3, <3>4 DEF LastIsCurrent
  <2>2. CASE u = t
    <3>1. documents'[t] = d
      BY <1>1, <1>2
    <3>2. \A i \in VersionsOf(t) : versions'[i] = versions[i]
      BY <1>7, <1>8
    <3>3. {versions'[i].number : i \in VersionsOf(t)'}
            = {versions[i].number : i \in VersionsOf(t)} \cup {n + 1}
      BY <1>6, <1>7, <1>8, <3>2
    <3>4. {versions'[i].number : i \in VersionsOf(t)'} = 1..(n + 1)
      <4>1. {versions[i].number : i \in VersionsOf(t)} = 1..n
        BY <1>1 DEF LastIsCurrent
      <4>2. 1..(n + 1) = 1..n \cup {n + 1}
        BY <1>1
      <4> QED BY <3>3, <4>1, <4>2
    <3>5. \A i \in VersionsOf(t)' :
            (\A j \in VersionsOf(t)' : j <= i) => i = Len(versions) + 1
      BY <1>1, <1>8
    <3> QED BY <1>1, <1>6, <1>7, <2>2, <3>1, <3>4, <3>5 DEF LastIsCurrent
  <2> QED BY <2>1, <2>2
<1>10. ASSUME NEW i \in DOMAIN versions' PROVE Repeats(i)'
  <2>1. \A u \in DocTypes : VersionsOf(u) \subseteq VersionsOf(u)'
    BY <1>8
  <2>2. CASE i \in DOMAIN versions
    <3>0. versions[i] \in DocVersion
      BY <1>1, <2>2
    <3>1. versions'[i] = versions[i] /\ versions[i].type \in DocTypes
      BY <1>7, <2>2, <3>0 DEF DocVersion
    <3>2. Repeats(i)
      BY <1>1, <2>2
    <3>3. \A j \in VersionsOf(versions[i].type) : versions'[j] = versions[j]
      BY <1>7, <1>8, <3>1
    <3> QED BY <2>1, <3>1, <3>2, <3>3 DEF Repeats
  <2>3. CASE i = Len(versions) + 1
    <3>1. versions'[i] = v
      BY <1>7, <2>3
    <3>2. \A j \in VersionsOf(t) : versions'[j] = versions[j]
      BY <1>7, <1>8
    <3> QED BY <1>6, <2>1, <3>1, <3>2 DEF Repeats
  <2> QED BY <1>7, <2>2, <2>3
<1> QED BY <1>5, <1>9, <1>10 DEF DocInv

LEMMA DocStep == DocInv /\ [DocNext]_docVars => DocInv'
<1> SUFFICES ASSUME DocInv, [DocNext]_docVars PROVE DocInv'
  OBVIOUS
<1>1. ASSUME NEW t \in DocTypes, NEW text \in DocText, AppendVersion(t, text, 0)
      PROVE  DocInv'
  BY <1>1, AppendKeepsDocInv
<1>2. ASSUME NEW t \in DocTypes, NEW i \in DOMAIN versions, RollBack(t, i)
      PROVE  DocInv'
  <2>1. versions \in Seq(DocVersion)
    BY DEF DocInv, DocTypeOK
  <2>2. i \in Nat /\ versions[i] \in DocVersion
    BY <2>1
  <2>3. i \in Nat /\ versions[i].text \in DocText
    BY <2>2 DEF DocVersion
  <2>4. i \in VersionsOf(t) /\ AppendVersion(t, versions[i].text, i)
    BY <1>2 DEF RollBack
  <2> QED BY <2>3, <2>4, AppendKeepsDocInv
<1>3. CASE UNCHANGED docVars
  BY <1>3 DEF docVars, DocInv, DocTypeOK, LastIsCurrent, Repeats, VersionsOf
<1> QED BY <1>1, <1>2, <1>3 DEF DocNext

(* A section is among the changes of one type when it differs in that way. *)
LEMMA ChangedTells ==
  ASSUME NEW before, NEW after, NEW type
  PROVE  Changed(type, Diff(before, after)) =
           {s \in Differences(before, after) : ChangeOf(s, before, after).type = type}
<1>1. \A s : ChangeOf(s, before, after).section = s
  BY DEF ChangeOf
<1>2. ASSUME NEW s
      PROVE  s \in Changed(type, Diff(before, after)) <=>
             s \in Differences(before, after) /\ ChangeOf(s, before, after).type = type
  BY <1>1 DEF Changed, Diff
<1> QED BY <1>2

(* The current version of a document is its last one and shows its text,   *)
(* the numbers run from 1, and a rollback repeats what it names, for any   *)
(* number of documents and versions (DocumentService.append_version,       *)
(* rollback_to).                                                           *)
THEOREM DocumentsCorrect == DocSpec => [](DocTypeOK /\ CurrentIsLatest)
<1>1. DocInv => DocTypeOK /\ CurrentIsLatest
  BY DEF DocInv, LastIsCurrent, Repeats, CurrentIsLatest, VersionsOf
<1> QED BY <1>1, DocStart, DocStep, PTL DEF DocSpec

(* A version and its difference to another give that other version's       *)
(* sections, whatever the two say (diff_sections).                         *)
THEOREM DifferencesRebuild == DiffRebuilds
<1> SUFFICES ASSUME NEW before, NEW after
             PROVE  LET diff == Diff(before, after)
                        kept == DOMAIN before \ (Changed("removed", diff)
                                                   \cup Changed("changed", diff))
                    IN /\ DOMAIN after = (DOMAIN before \ Changed("removed", diff))
                                            \cup Changed("added", diff)
                       /\ \A s \in kept : after[s] = before[s]
  BY DEF DiffRebuilds
<1> DEFINE Of(type) == {s \in Differences(before, after) :
                          ChangeOf(s, before, after).type = type}
<1>1. /\ Of("added") = DOMAIN after \ DOMAIN before
      /\ Of("removed") = DOMAIN before \ DOMAIN after
      /\ Of("changed") = {s \in DOMAIN before \cap DOMAIN after : before[s] # after[s]}
  BY DEF Differences, ChangeOf
<1>2. \A type : Changed(type, Diff(before, after)) = Of(type)
  BY ChangedTells
<1> HIDE DEF Of
<1> QED BY <1>1, <1>2

=============================================================================
