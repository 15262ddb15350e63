---------------------------- MODULE MC_Algorithms ----------------------------
(***************************************************************************)
(* The pure parts of the program, evaluated on every bounded input and     *)
(* compared with reference definitions.  An input is picked, then          *)
(* evaluated.                                                              *)
(***************************************************************************)
EXTENDS Integers, Sequences, FiniteSets

CONSTANTS Keys, Values, Names, Tracked, Contents, ScriptLength, Codes, StreamLength, Word,
          Frames, Ticks, Top, Threshold, MinBase, Floor

Sel == INSTANCE Selectors
Han == INSTANCE Handle
Gat == INSTANCE Gateway
Cli == INSTANCE CommandLine
Prf == INSTANCE PerfGates

VARIABLES
    part,       \* the module under test
    input,      \* the input
    out         \* its result, in a sequence; empty until it is evaluated

vars == <<part, input, out>>

Init ==
    /\ out = <<>>
    /\ \/ part = "selector" /\ input \in Sel!Selections
       \/ part = "handle" /\ input \in Han!Scripts
       \/ part = "gateway" /\ input \in Gat!Exchanges
       \/ part = "import" /\ input \in Cli!Histories
       \/ part = "dry run" /\ input \in Cli!Proposals
       \/ part = "secret" /\ input \in Cli!SecretWrites
       \/ part = "cpu" /\ input \in Prf!FlameCases
       \/ part = "latency" /\ input \in Prf!LatencyCases

EvaluateSelector == part = "selector" /\ out' = <<Sel!Selected(input)>>
EvaluateHandle   == part = "handle" /\ out' = <<Han!Observed(input)>>
EvaluateGateway  == part = "gateway" /\ out' = <<Gat!Handled(input)>>
EvaluateImport   == part = "import" /\ out' = <<Cli!Imported(input)>>
EvaluateDryRun   == part = "dry run" /\ out' = <<Cli!Previewed(input)>>
EvaluateSecret   == part = "secret" /\ out' = <<Cli!SecretWritten(input)>>
EvaluateCpuGate  == part = "cpu" /\ out' = <<Prf!FlameVerdict(input)>>
EvaluateLatency  == part = "latency" /\ out' = <<Prf!LatencyGate(input)>>

Next ==
    /\ out = <<>>
    /\ \/ EvaluateSelector
       \/ EvaluateHandle
       \/ EvaluateGateway
       \/ EvaluateImport
       \/ EvaluateDryRun
       \/ EvaluateSecret
       \/ EvaluateCpuGate
       \/ EvaluateLatency
    /\ UNCHANGED <<part, input>>

Spec == Init /\ [][Next]_vars

Judged(p, Holds(_, _)) == part = p /\ out # <<>> => Holds(input, out[1])

(***************************************************************************)
(* Selectors!SelectorMeansWhatItSays of every bounded subscription.        *)
(***************************************************************************)
SelectorMeansWhatItSays == Judged("selector", Sel!SelectorMeansWhatItSays)

(***************************************************************************)
(* Handle!HandleShowsLastGood of every bounded script.                     *)
(***************************************************************************)
HandleShowsLastGood == Judged("handle", Han!HandleShowsLastGood)

(***************************************************************************)
(* Gateway!GatewayAnswersWhole of every bounded exchange.                  *)
(***************************************************************************)
GatewayAnswersWhole == Judged("gateway", Gat!GatewayAnswersWhole)

(***************************************************************************)
(* What is read after a write, with its encodings and defaults, is the     *)
(* same on every path: Documents!ImportMatchesWatch of every bounded       *)
(* ConfigMap history and CommandLine!SecretReadsBack of every bounded      *)
(* write of a Secret.                                                      *)
(***************************************************************************)
WritesReadBack ==
    /\ Judged("import", Cli!ImportMatchesWatch)
    /\ Judged("secret", Cli!SecretReadsBack)

(***************************************************************************)
(* Documents!DryRunForesees and CommandLine!CommandLineForesees of every   *)
(* bounded document and stored object.                                     *)
(***************************************************************************)
DryRunForesees ==
    /\ Judged("dry run", Cli!DryRunForesees)
    /\ Judged("dry run", Cli!CommandLineForesees)

(***************************************************************************)
(* Both gates judge what was measured: PerfGates!GateJudgesTheProfile of   *)
(* every bounded profile and baseline, and PerfGates!GateJudgesTheNewest   *)
(* of every bounded set of latency files.                                  *)
(***************************************************************************)
GatesJudgeWhatWasMeasured ==
    /\ Judged("cpu", Prf!GateJudgesTheProfile)
    /\ Judged("latency", Prf!GateJudgesTheNewest)
=============================================================================
