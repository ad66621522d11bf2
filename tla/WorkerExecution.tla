-------------------------- MODULE WorkerExecution --------------------------
(***************************************************************************)
(* execute of executor.rs and the contracts of worker.rs: a request is     *)
(* validated, its tool runs as often as it asks for, and what the runs     *)
(* left is the evidence.  The sandbox gets the inputs and tools read-only  *)
(* and no directory to write to: what run_once measures afterwards is what *)
(* lay in the work directory, put there by an earlier call or by another   *)
(* process.  It looks at one output after the other, at the size first and *)
(* at the content then, and other processes may write in between.  Whether *)
(* the tool succeeded is not looked at.                                    *)
(***************************************************************************)
EXTENDS Naturals, Sequences, FiniteSets

CONSTANTS
  Request,    \* [clean, capabilities, inputs, tools, outputs, network, runs]
  SafePath,   \* the paths that stay inside of the work directory
  Path,
  File,       \* what a file may hold: [digest, size]
  NoFile, Denied, NotRun,
  Said,       \* what a tool may write to its standard output
  MinRuns, MaxRuns, MaxFileSize, MaxListed,
  MaxWrites   \* bound: what other processes write to the work directory

ASSUME WorkerAssumption ==
  /\ SafePath \subseteq Path /\ NoFile \notin File /\ NotRun \notin Said
  /\ MinRuns \in Nat \ {0} /\ MaxRuns \in Nat /\ MaxFileSize \in Nat /\ MaxWrites \in Nat
  /\ \A r \in Request :
       /\ r.clean \in BOOLEAN /\ r.runs \in Nat
       /\ r.inputs \in Seq(Path) /\ r.tools \in Seq(Path)
       /\ r.outputs \in Seq([path : Path, max : Nat])

VARIABLES
  dir,      \* work_dir: path -> file
  request,  \* the request of the running call
  said,     \* what the tool of the current run wrote, or NotRun
  looks,    \* what the run has seen of the outputs so far: [sized, read]
  sized,    \* the file whose size fs::metadata has just taken, or NoFile
  runs,     \* the evidence of the finished runs: [said, outputs]
  seen,     \* what each of them had seen
  verdict,  \* "none", "running", or what execute returned
  writes

run == <<said, looks, sized>>
worker == <<dir, request, run, runs, seen, verdict, writes>>

NoRequest == [outputs |-> <<>>, runs |-> 0]

WorkerInit ==
  /\ dir = [x \in Path |-> NoFile]
  /\ request = NoRequest /\ runs = <<>> /\ seen = <<>> /\ verdict = "none" /\ writes = 0
  /\ said = NotRun /\ looks = <<>> /\ sized = NoFile

Paths(s) == {s[k] : k \in DOMAIN s}
Once(s) == \A j, k \in DOMAIN s : s[j] = s[k] => j = k
Listed1(s) == Len(s) \in 1..MaxListed /\ Once(s)
OutputPaths(r) == [k \in DOMAIN r.outputs |-> r.outputs[k].path]

(* WorkerRequest::validate; clean stands for the format, the identifiers, the    *)
(* digests and the sizes of inputs being well formed.                            *)
ValidRequest(r) ==
  /\ r.clean
  /\ r.runs \in MinRuns..MaxRuns
  /\ {"ReadInputs", "ExecuteTools", "WriteOutputs"} \subseteq r.capabilities
  /\ "FixedOutputNetwork" \in r.capabilities <=> r.network # Denied
  /\ Listed1(r.inputs) /\ Listed1(r.tools) /\ Listed1(OutputPaths(r))
  /\ Paths(r.inputs) \cup Paths(r.tools) \cup Paths(OutputPaths(r)) \subseteq SafePath
  /\ Paths(OutputPaths(r)) \cap (Paths(r.inputs) \cup Paths(r.tools)) = {}
  /\ \A k \in DOMAIN r.outputs : r.outputs[k].max \in 1..MaxFileSize
  /\ r.network # Denied => Listed1(r.network)

Execute(r) ==
  /\ verdict # "running"
  /\ request' = r /\ runs' = <<>> /\ seen' = <<>>
  /\ verdict' = IF ValidRequest(r) THEN "running" ELSE "invalid"
  /\ UNCHANGED <<dir, run, writes>>

(* run_once: the sandbox starts, or it does not and the call ends. *)
RunTool ==
  /\ verdict = "running" /\ said = NotRun /\ Len(runs) < request.runs
  /\ \/ said' \in Said /\ UNCHANGED verdict
     \/ verdict' = "InvalidTool" /\ UNCHANGED said
  /\ UNCHANGED <<dir, request, looks, sized, runs, seen, writes>>

(* The output that is looked at. *)
Looking == verdict = "running" /\ said # NotRun /\ Len(looks) < Len(request.outputs)
Looked == request.outputs[Len(looks) + 1].path

Nothing == [sized |-> NoFile, read |-> NoFile]

(* fs::metadata: an output that is not there is passed over. *)
TakeSize ==
  /\ Looking /\ sized = NoFile
  /\ IF dir[Looked] = NoFile
       THEN looks' = Append(looks, Nothing) /\ UNCHANGED sized
       ELSE sized' = dir[Looked] /\ UNCHANGED looks
  /\ UNCHANGED <<dir, request, said, runs, seen, verdict, writes>>

(* fs::read, of what lies there by now. *)
ReadContent ==
  /\ Looking /\ sized # NoFile
  /\ looks' = Append(looks, [sized |-> sized, read |-> dir[Looked]])
  /\ sized' = NoFile
  /\ UNCHANGED <<dir, request, said, runs, seen, verdict, writes>>

(* The evidence of the outputs that could be read. *)
Measured(l, r) ==
  {[path |-> r.outputs[o].path, digest |-> l[o].read.digest, size |-> l[o].sized.size] :
     o \in {k \in DOMAIN l : l[k].read # NoFile}}

(* run_once returns. *)
EndRun ==
  /\ verdict = "running" /\ said # NotRun /\ Len(looks) = Len(request.outputs)
  /\ runs' = Append(runs, [said |-> said, outputs |-> Measured(looks, request)])
  /\ seen' = Append(seen, looks)
  /\ said' = NotRun /\ looks' = <<>>
  /\ UNCHANGED <<dir, request, sized, verdict, writes>>

Maximum(r, x) == r.outputs[CHOOSE k \in DOMAIN r.outputs : r.outputs[k].path = x].max

(* A run's outputs are those declared, none of them too large. *)
Matches(e) ==
  /\ Cardinality(e.outputs) = Len(request.outputs)
  /\ \A o \in e.outputs : o.size <= Maximum(request, o.path)

Same(e) == e = runs[1]

Wrong(k) == ~Matches(runs[k]) \/ ~Same(runs[k])
FirstWrong == CHOOSE k \in DOMAIN runs : Wrong(k) /\ \A j \in 1..k - 1 : ~Wrong(j)

(* ReproducibilityEvidence::validate *)
Judge ==
  /\ verdict = "running" /\ said = NotRun /\ Len(runs) = request.runs
  /\ verdict' = IF \A k \in DOMAIN runs : ~Wrong(k) THEN "evidence"
                ELSE IF ~Matches(runs[FirstWrong]) THEN "OutputMismatch" ELSE "NonReproducible"
  /\ UNCHANGED <<dir, request, run, runs, seen, writes>>

(* Another process, or what an earlier tool left. *)
OthersWrite ==
  /\ writes < MaxWrites
  /\ writes' = writes + 1
  /\ \E x \in SafePath, f \in File \cup {NoFile} : dir' = [dir EXCEPT ![x] = f]
  /\ UNCHANGED <<request, run, runs, seen, verdict>>

WorkerNext ==
  \/ \E r \in Request : Execute(r)
  \/ RunTool \/ TakeSize \/ ReadContent \/ EndRun \/ Judge
  \/ OthersWrite

-----------------------------------------------------------------------------
(* "Fail-closed contracts" (worker.rs 1): evidence is only returned when every    *)
(* declared output was found at each of the runs, with a size within its bound    *)
(* and, a moment later, with a content; the sizes and the contents are the same   *)
(* for all runs, though others write there at any time.                           *)
EvidenceReproduced ==
  verdict = "evidence" =>
    /\ Len(seen) >= MinRuns
    /\ \A k \in DOMAIN seen, o \in DOMAIN request.outputs :
         /\ o \in DOMAIN seen[k] /\ seen[k][o].read # NoFile
         /\ seen[k][o].read.digest = seen[1][o].read.digest
         /\ seen[k][o].sized.size = seen[1][o].sized.size
         /\ seen[k][o].sized.size <= request.outputs[o].max
         /\ request.outputs[o].path \notin Paths(request.inputs)

(* The same words taken for what is accepted: the content that the evidence       *)
(* vouches for lies within the bound of its output.  The code bounds the size of  *)
(* the file it saw before.                                                       *)
EvidenceBounded ==
  verdict = "evidence" =>
    \A k \in DOMAIN seen, o \in DOMAIN request.outputs :
      seen[k][o].read.size <= request.outputs[o].max

(* The inductive invariant behind EvidenceReproduced: the evidence of a run is    *)
(* what it had seen.                                                             *)
Look == [sized : File, read : File \cup {NoFile}] \cup {Nothing}
Output == [path : Path, digest : {f.digest : f \in File}, size : {f.size : f \in File}]

WorkerInv ==
  /\ dir \in [Path -> File \cup {NoFile}]
  /\ said \in Said \cup {NotRun} /\ looks \in Seq(Look) /\ sized \in File \cup {NoFile}
  /\ seen \in Seq(Seq(Look)) /\ runs \in Seq([said : Said, outputs : SUBSET Output])
  /\ Len(seen) = Len(runs)
  /\ \A k \in DOMAIN runs : runs[k].outputs = Measured(seen[k], request)
  /\ \A k \in DOMAIN runs : Len(seen[k]) = Len(request.outputs)
  /\ verdict = "running" => request \in Request /\ ValidRequest(request)
  /\ verdict # "running" => said = NotRun
  /\ EvidenceReproduced
=============================================================================
