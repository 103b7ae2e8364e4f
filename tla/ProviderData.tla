---------------------------- MODULE ProviderData ----------------------------
(***************************************************************************)
(* A machine class's provider data: the defaults and checks of helpers.go, *)
(* and schema.json, with which data.go requires them to stay in sync.      *)
(***************************************************************************)
EXTENDS Integers

CONSTANT MaxInt   \* the largest value of Go's int
ASSUME MaxIntAssumption == MaxInt \in Nat

(* An id, as what the code can tell of it: nothing, whitespace only, the   *)
(* id of something in Xen Orchestra, that id with whitespace around it, or *)
(* another.                                                                *)
Ids == {"empty", "blank", "known", "padded", "unknown"}
Blank == {"empty", "blank"}

Data == [poolID : Ids, srID : Ids, networkID : Ids, templateID : Ids,
         architecture : {"empty", "amd64", "arm64"},
         cores : Int, memory : Int, diskSize : Int]

(* UnmarshalProviderData: memory is an unsigned integer.                   *)
Unmarshals(d) == d.memory >= 0

applyDefaults(d) == IF d.architecture = "empty" THEN [d EXCEPT !.architecture = "amd64"] ELSE d

(* Mutant: the smallest disk is taken for a limit on nothing. *)
validateAllButDisk(d) ==
  /\ {d.poolID, d.srID, d.networkID} \cap Blank = {}
  /\ d.architecture = "amd64"
  /\ d.cores >= 1 /\ d.memory >= 2048 /\ d.memory <= MaxInt

(* Mutant: the smallest memory the schema allows is too little. *)
validateStrictly(d) ==
  /\ {d.poolID, d.srID, d.networkID} \cap Blank = {}
  /\ d.architecture = "amd64"
  /\ d.cores >= 1 /\ d.memory > 2048 /\ d.memory <= MaxInt /\ d.diskSize >= 5

validateProviderData(d) ==
  /\ {d.poolID, d.srID, d.networkID} \cap Blank = {}
  /\ d.architecture = "amd64"
  /\ d.cores >= 1 /\ d.memory >= 2048 /\ d.memory <= MaxInt /\ d.diskSize >= 5

(* schema.json: minLength, enum, minimum and required; a field that is     *)
(* missing unmarshals to what these refuse.                                *)
SchemaAccepts(d) ==
  /\ "empty" \notin {d.poolID, d.srID, d.networkID}
  /\ d.architecture = "amd64"
  /\ d.cores >= 1 /\ d.memory >= 2048 /\ d.diskSize >= 5
=============================================================================
