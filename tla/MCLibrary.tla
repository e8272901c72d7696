----------------------------- MODULE MCLibrary ------------------------------
(* What bids are made from, one store at a time: the material list of a    *)
(* task, the qualifications, a text fragment, the generated documents, and *)
(* the files that are uploaded.  part says which of them a behaviour is    *)
(* about; they share no variable.                                          *)
EXTENDS BidMaterials, Qualifications, Fragments, DocumentVersions, FileUpload,
        TLC

CONSTANTS a, b, x1, x2

VARIABLE part

libraryVars == <<part, matVars, qualVars, fragVars, docVars, uploadVars>>

BothRows == {{a, b}}
AllGood == [p \in Parts |-> "good"]

(* The first part may be sent damaged. *)
OneDamaged == {<<x1, "good">>, <<x1, "bad">>, <<x2, "good">>}

(* Calls and Materials are one set of model values. *)
Symmetry == Permutations(Materials)

LibraryInit ==
  /\ part \in {"materials", "qualifications", "fragments", "documents",
               "uploads"}
  /\ MatInit /\ QualInit /\ FragInit /\ DocInit /\ UploadInit

LibraryNext ==
  /\ part' = part
  /\ part # "materials" => UNCHANGED matVars
  /\ part # "qualifications" => UNCHANGED qualVars
  /\ part # "fragments" => UNCHANGED fragVars
  /\ part # "documents" => UNCHANGED docVars
  /\ part # "uploads" => UNCHANGED uploadVars
  /\ \/ part = "materials" /\ MatNext
     \/ part = "qualifications" /\ QualNext
     \/ part = "fragments" /\ FragNext
     \/ part = "documents" /\ DocNext
     \/ part = "uploads" /\ UploadNext

LibrarySpec == LibraryInit /\ [][LibraryNext]_libraryVars
=============================================================================
