---------------------------- MODULE BidMaterials ----------------------------
(***************************************************************************)
(* The material list of one bid task (domains/bids): people edit it and    *)
(* bind files to it while matching and template jobs, which were given a   *)
(* snapshot of it, write their results back.  The store hands out deep     *)
(* copies; binding a file awaits the file service between reading a        *)
(* material and saving it.  How the status of the task moves is the        *)
(* subject of BidTask: here any change of it may happen at any time.       *)
(***************************************************************************)
EXTENDS Naturals

CONSTANTS
  Materials,    \* identities of materials
  PersonFiles,  \* files that people bind
  JobFiles,     \* files that template jobs generate
  Sources,      \* sourceId values of matched material
  NoFile,       \* no file, and no sourceId
  Binders,      \* suspended bindings (bound)
  MaxMatJobs,   \* jobs ever dispatched (bound)
  MaxMatVersion \* changes of a material (bound)

ASSUME MaterialsAssumption ==
  /\ PersonFiles \cap JobFiles = {} /\ NoFile \notin PersonFiles \cup JobFiles
  /\ NoFile \notin Sources /\ MaxMatJobs \in Nat
  /\ MaxMatVersion \in Nat \ {0}

MatJobs == 1..MaxMatJobs

VARIABLES
  phase,     \* the status of the task, as far as the list depends on it
  list,      \* the stored materials
  matJobs,   \* per job: what it is for, the snapshot it was given, how far it is
  newest,    \* store.latest_jobs: kind -> job, 0 for none
  binders    \* suspended bind_material_file and batch_bind requests

matVars == <<phase, list, matJobs, newest, binders>>

(* elsewhere: parsing, or any status after material_prep; a task that      *)
(* returns to draft may do less than a failed one.                         *)
Phases == {"draft", "elsewhere", "material_prep", "failed"}
MatKinds == {"match", "template"}
File == PersonFiles \cup JobFiles \cup {NoFile}

Material == [life : {"absent", "present", "deleted"}, file : File,
             status : {"pending", "have", "template"},
             source : Sources \cup {NoFile}, version : 0..MaxMatVersion]

NoMaterial == [life |-> "absent", file |-> NoFile, status |-> "pending",
               source |-> NoFile, version |-> 0]

Pending == [NoMaterial EXCEPT !.life = "present", !.version = 1]

(* state: dispatching, out, applying (the files are awaited) or settled.   *)
Snapshot == [file : File, source : Sources \cup {NoFile}, version : 0..MaxMatVersion]
SnapshotOf(material) ==
  [file |-> material.file, source |-> material.source, version |-> material.version]

MatJob == [kind : MatKinds \cup {"none"}, seen : [Materials -> Snapshot],
           asked : SUBSET Materials,
           state : {"none", "dispatching", "out", "applying", "settled"}]

NoMatJob == [kind |-> "none", seen |-> [m \in Materials |-> SnapshotOf(NoMaterial)],
             asked |-> {}, state |-> "none"]

(* A settled job is answered from its result: what it was given is not     *)
(* looked at again.                                                        *)
Settled(job) == [NoMatJob EXCEPT !.kind = job.kind, !.state = "settled"]

(* The bindings a request has still to make, the material it has read and  *)
(* the file it awaits.                                                      *)
Binder == [rest : SUBSET (Materials \X PersonFiles), replace : BOOLEAN,
           target : Materials \cup {NoFile}, copy : Material, file : File]

NoBinder == [rest |-> {}, replace |-> TRUE, target |-> NoFile,
             copy |-> NoMaterial, file |-> NoFile]

MatTypeOK ==
  /\ phase \in Phases
  /\ list \in [Materials -> Material]
  /\ matJobs \in [MatJobs -> MatJob]
  /\ newest \in [MatKinds -> 0..MaxMatJobs]
  /\ binders \in [Binders -> Binder]

MatInit ==
  /\ phase = "draft"
  /\ list = [m \in Materials |-> NoMaterial]
  /\ matJobs = [j \in MatJobs |-> NoMatJob]
  /\ newest = [k \in MatKinds |-> 0]
  /\ binders = [b \in Binders |-> NoBinder]

-----------------------------------------------------------------------------
(* Edits: none of them awaits before it saves.                             *)

Editable == phase \in {"draft", "material_prep", "failed"}
Held == {m \in Materials : list[m].life = "present"}
Absent(m) == list[m].life = "absent"
Room(material) == material.version < MaxMatVersion
Edited(material) == [material EXCEPT !.version = @ + 1]

SaveMaterial(m, material) ==
  /\ list' = [list EXCEPT ![m] = material]
  /\ UNCHANGED <<phase, matJobs, newest, binders>>

CreateMaterial(m) ==
  /\ Editable /\ Absent(m)
  /\ SaveMaterial(m, Pending)

(* update_material: If-Match names the stored version; status and file     *)
(* cannot be given.                                                        *)
UpdateMaterial(m, source) ==
  /\ Editable /\ m \in Held /\ Room(list[m])
  /\ SaveMaterial(m, Edited([list[m] EXCEPT !.source = source]))

DeleteMaterial(m) ==
  /\ Editable /\ m \in Held
  /\ SaveMaterial(m, [list[m] EXCEPT !.life = "deleted"])

(* Mutant of Unbound: the status of the file that is gone stays. *)
UnboundFileOnly(material) == Edited([material EXCEPT !.file = NoFile])

Unbound(material) ==
  Edited([material EXCEPT !.file = NoFile, !.status = "pending"])

UnbindMaterialFile(m) ==
  /\ Editable /\ m \in Held /\ Room(list[m])
  /\ SaveMaterial(m, Unbound(list[m]))

(* apply_parse_result: the materials found are added, the task moves on.   *)
ApplyParseResult(found) ==
  /\ phase = "elsewhere" /\ \A m \in found : Absent(m)
  /\ phase' = "material_prep"
  /\ list' = [m \in Materials |-> IF m \in found THEN Pending ELSE list[m]]
  /\ UNCHANGED <<matJobs, newest, binders>>

(* The task moves as BidTask says, a copy read earlier may take it back.   *)
StatusMoves ==
  /\ phase' \in Phases \ {phase, "draft"}
  /\ UNCHANGED <<list, matJobs, newest, binders>>

-----------------------------------------------------------------------------
(* Binding: a request takes its bindings one after another; the stage is   *)
(* looked at once, at its beginning.                                       *)

BeginBinding(b, wanted, replace) ==
  /\ Editable /\ binders[b] = NoBinder /\ wanted # {}
  /\ \A x, y \in wanted : x[1] = y[1] => x = y
  /\ binders' = [binders EXCEPT ![b] = [NoBinder EXCEPT !.rest = wanted,
                                                        !.replace = replace]]
  /\ UNCHANGED <<phase, list, matJobs, newest>>

(* A material that is gone, or bound already and not to be replaced, is    *)
(* reported as failed; the others are read, and their file is awaited.     *)
ReadTarget(b) ==
  \E w \in binders[b].rest :
    LET left == [binders[b] EXCEPT !.rest = @ \ {w}]
        m == w[1]
    IN
    /\ binders[b].target = NoFile
    /\ binders' = [binders EXCEPT ![b] =
         IF m \in Held /\ (list[m].file = NoFile \/ left.replace)
         THEN [left EXCEPT !.target = m, !.copy = list[m], !.file = w[2]]
         ELSE left]
    /\ UNCHANGED <<phase, list, matJobs, newest>>

BoundTo(material, file, status) ==
  Edited([material EXCEPT !.file = file, !.status = status])

(* The file is there, or it is refused: the copy is saved, or is not.      *)
SaveTarget(b, ok) ==
  /\ binders[b].target # NoFile /\ Room(binders[b].copy)
  /\ list' = IF ok THEN [list EXCEPT ![binders[b].target] =
                           BoundTo(binders[b].copy, binders[b].file, "have")]
                   ELSE list
  /\ binders' = [binders EXCEPT ![b] = [NoBinder EXCEPT
                   !.rest = binders[b].rest, !.replace = binders[b].replace]]
  /\ UNCHANGED <<phase, matJobs, newest>>

(* A request without bindings to make is over. *)
EndBinding(b) ==
  /\ binders[b].rest = {} /\ binders[b].target = NoFile
  /\ binders[b] # NoBinder
  /\ binders' = [binders EXCEPT ![b] = NoBinder]
  /\ UNCHANGED <<phase, list, matJobs, newest>>

-----------------------------------------------------------------------------
(* Jobs: the operation lock of the kind is held during the dispatch.       *)

Dispatching(kind) ==
  \E j \in MatJobs : matJobs[j].kind = kind /\ matJobs[j].state = "dispatching"

(* A matching job without materialIds takes every material; a template job *)
(* names at least one.  A failed task goes back to material_prep.          *)
EnqueueJob(j, kind, asked) ==
  /\ phase \in {"material_prep", "failed"}
  /\ matJobs[j] = NoMatJob /\ \A i \in MatJobs : i < j => matJobs[i] # NoMatJob
  /\ ~Dispatching(kind) /\ asked \subseteq Held /\ asked # {}
  /\ phase' = "material_prep"
  /\ matJobs' = [matJobs EXCEPT ![j] =
       [NoMatJob EXCEPT !.kind = kind, !.asked = asked, !.state = "dispatching",
          !.seen = [m \in Materials |->
                      SnapshotOf(IF m \in asked THEN list[m] ELSE NoMaterial)]]]
  /\ UNCHANGED <<list, newest, binders>>

(* The reference is remembered after the dispatch; a job that cannot be    *)
(* dispatched leaves nothing (the old copy of the task is saved).          *)
Dispatched(j) ==
  /\ matJobs[j].state = "dispatching"
  /\ matJobs' = [matJobs EXCEPT ![j].state = "out"]
  /\ newest' = [newest EXCEPT ![matJobs[j].kind] = j]
  /\ UNCHANGED <<phase, list, binders>>

DispatchRefused(j) ==
  /\ matJobs[j].state = "dispatching"
  /\ matJobs' = [matJobs EXCEPT ![j] = Settled(@)]
  /\ phase' \in {"failed", phase}
  /\ UNCHANGED <<list, newest, binders>>

Applicable(j) == newest[matJobs[j].kind] = j /\ phase = "material_prep"

(* Mutant of SameAsSeen: only that the material is there. *)
StillHeld(m, j) == m \in Held

(* A match must have seen the material as it is, a template its file and   *)
(* its version.                                                            *)
SameAsSeen(m, j) ==
  /\ m \in Held
  /\ list[m].version = matJobs[j].seen[m].version
  /\ list[m].file = matJobs[j].seen[m].file
  /\ matJobs[j].kind = "match" => list[m].source = matJobs[j].seen[m].source

(* The result is written to the materials it names, all of them or none.   *)
WriteResult(j, named, value) ==
  /\ Applicable(j) /\ named \subseteq matJobs[j].asked
  /\ \A m \in named : SameAsSeen(m, j) /\ Room(list[m])
  /\ list' = [m \in Materials |->
       IF m \notin named THEN list[m]
       ELSE IF matJobs[j].kind = "match"
            THEN Edited([list[m] EXCEPT !.source = value])
            ELSE BoundTo(list[m], value, "template")]
  /\ matJobs' = [matJobs EXCEPT ![j] = Settled(@)]
  /\ UNCHANGED <<phase, newest, binders>>

ApplyMatchResult(j, named, source) ==
  /\ matJobs[j].kind = "match" /\ matJobs[j].state = "out"
  /\ WriteResult(j, named, source)

(* The lock of all results: one template result awaits its files at a time; *)
(* everything is looked at again after the awaits.                         *)
BeginTemplateResult(j) ==
  /\ matJobs[j].kind = "template" /\ matJobs[j].state = "out"
  /\ \A i \in MatJobs : matJobs[i].state # "applying"
  /\ Applicable(j)
  /\ matJobs' = [matJobs EXCEPT ![j].state = "applying"]
  /\ UNCHANGED <<phase, list, newest, binders>>

EndTemplateResult(j, named, file) ==
  /\ matJobs[j].state = "applying"
  /\ WriteResult(j, named, file)

(* A refusal leaves the job as it was: its result may come again.          *)
RefuseTemplateResult(j) ==
  /\ matJobs[j].state = "applying"
  /\ matJobs' = [matJobs EXCEPT ![j].state = "out"]
  /\ UNCHANGED <<phase, list, newest, binders>>

-----------------------------------------------------------------------------

ListNext ==
  \/ \E m \in Materials : CreateMaterial(m)
  \/ \E m \in Materials, s \in Sources : UpdateMaterial(m, s)
  \/ \E m \in Materials : DeleteMaterial(m)
  \/ \E m \in Materials : UnbindMaterialFile(m)
  \/ \E found \in SUBSET Materials : ApplyParseResult(found)
  \/ StatusMoves

BindingNext ==
  \/ \E b \in Binders, wanted \in SUBSET (Materials \X PersonFiles),
        replace \in BOOLEAN : BeginBinding(b, wanted, replace)
  \/ \E b \in Binders : ReadTarget(b)
  \/ \E b \in Binders, ok \in BOOLEAN : SaveTarget(b, ok)
  \/ \E b \in Binders : EndBinding(b)

ResultNext ==
  \/ \E j \in MatJobs, kind \in MatKinds, asked \in SUBSET Materials :
       EnqueueJob(j, kind, asked)
  \/ \E j \in MatJobs : Dispatched(j)
  \/ \E j \in MatJobs : DispatchRefused(j)
  \/ \E j \in MatJobs, named \in SUBSET Materials, s \in Sources :
       ApplyMatchResult(j, named, s)
  \/ \E j \in MatJobs : BeginTemplateResult(j)
  \/ \E j \in MatJobs, named \in SUBSET Materials, f \in JobFiles :
       EndTemplateResult(j, named, f)
  \/ \E j \in MatJobs : RefuseTemplateResult(j)

MatNext == ListNext \/ BindingNext \/ ResultNext

MatSpec == MatInit /\ [][MatNext]_matVars

-----------------------------------------------------------------------------

(* The status of a material tells where its file comes from, whichever old *)
(* copies were saved: pending has none, have a person's, template a job's. *)
StatusTellsOrigin ==
  \A m \in Materials :
    list[m].file \in CASE list[m].status = "pending"  -> {NoFile}
                       [] list[m].status = "have"     -> PersonFiles
                       [] list[m].status = "template" -> JobFiles

(* A result replaces the file and the version its job was shown, and never *)
(* brings a deleted material back, although people edit and bind while the *)
(* job runs and while its result awaits the file service                   *)
(* (apply_material_match_result, apply_template_result).                   *)
ReplacesWhatItSaw ==
  [][\A j \in MatJobs, m \in Materials :
       matJobs'[j].state # matJobs[j].state /\ list'[m] # list[m] =>
       /\ list[m].life = "present"
       /\ list[m].file = matJobs[j].seen[m].file
       /\ list[m].version = matJobs[j].seen[m].version]_matVars

(* Violated: a binding that read the material before it was deleted saves  *)
(* its copy, and the material is back (bind_material_file, batch_bind).    *)
MaterialsStayDeleted ==
  [][\A m \in Materials : list[m].life = "deleted" => list'[m].life = "deleted"]_matVars
=============================================================================
