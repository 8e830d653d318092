-------------------------------- MODULE Cli ---------------------------------
(***************************************************************************)
(* main() of src/tests/inspect_graph.cpp up to the call of a stats         *)
(* function, and its verdict on the stats: the argument loop, the choice   *)
(* of layout, and the exits after the stats.  The module Inspect extends   *)
(* it with the calls of the library.                                       *)
(*                                                                         *)
(* argv is a sequence of words.  A path is any word; it counts as given    *)
(* when it is not empty.  A number is a word for stoul: a decimal numeral, *)
(* "-1", or a word stoul rejects.  The messages printed are left out.      *)
(***************************************************************************)
EXTENDS Integers, Sequences, FiniteSets, TLC

CONSTANT Argvs  (* the command lines, each a sequence of words after argv[0] *)

VARIABLES
  argv,    (* the words                                                     *)
  i,       (* the index of the argument loop                                *)
  opt,     (* the strings and sizes the loop has set                        *)
  phase,   (* "args", "start" (a layout chosen), then the calls, "exit"     *)
  code,    (* the exit status once phase is "exit" or "abort"; -1 before    *)
  layout   (* "graph" (mode 1), "index" (mode 2), "disk" (mode 4)           *)

cliVars == <<argv, i, opt, phase, code, layout>>

kMaxReasonableDegree == 10000000
kMaxReasonableNodes == 500000000

(* 2^64 - 1.  TLC integers are 32-bit, so a value above every other count  *)
(* of the models stands for it; it is used only in comparisons.            *)
ULongMax == 2147483647

(* The numerals the command lines use.                                     *)
Numeral == ("0" :> 0) @@ ("1" :> 1) @@ ("2" :> 2) @@ ("3" :> 3) @@ ("20" :> 20)

(* parse_positive_size: std::stoul accepts a numeral, and "-1", which it   *)
(* negates in unsigned long: ULONG_MAX.  Any other word (no digits, or a   *)
(* value over ULONG_MAX) throws, and the function returns false.           *)
Parses(w) == w \in DOMAIN Numeral \/ w = "-1"
Stoul(w) == IF w = "-1" THEN ULongMax ELSE Numeral[w]

PathFlag ==
  ("--graph-file" :> "graph") @@ ("--index-file" :> "index")
  @@ ("--disk-index" :> "disk") @@ ("--data-type" :> "dtype")
SizeFlag ==
  ("--adjacency-sample" :> "adj") @@ ("--max-neighbors" :> "maxn")
  @@ ("--small-graph" :> "small")

Defaults ==
  [graph |-> "", index |-> "", disk |-> "", dtype |-> "",
   adj |-> 0, maxn |-> 20, small |-> 0]

DataTypeNames == {"float", "uint8", "int8"}

(* --data-type to pipeann::DiskIndexDataType.                              *)
DTypeOf == ("float" :> "kFloat") @@ ("uint8" :> "kUint8") @@ ("int8" :> "kInt8")

CliInit ==
  /\ argv \in Argvs /\ i = 1 /\ opt = Defaults
  /\ phase = "args" /\ code = -1 /\ layout = "none"

(* `i + 1 < argc`: the flag has a word after it.                           *)
HasValue == i + 1 <= Len(argv)

(* --graph-file, --index-file, --disk-index, --data-type with a value.     *)
TakeString ==
  /\ phase = "args" /\ i <= Len(argv)
  /\ argv[i] \in DOMAIN PathFlag /\ HasValue
  /\ opt' = [opt EXCEPT ![PathFlag[argv[i]]] = argv[i + 1]]
  /\ i' = i + 2
  /\ UNCHANGED <<argv, phase, code, layout>>

(* --adjacency-sample, --max-neighbors, --small-graph with a value that    *)
(* parses.                                                                 *)
TakeSize ==
  /\ phase = "args" /\ i <= Len(argv)
  /\ argv[i] \in DOMAIN SizeFlag /\ HasValue /\ Parses(argv[i + 1])
  /\ opt' = [opt EXCEPT ![SizeFlag[argv[i]]] = Stoul(argv[i + 1])]
  /\ i' = i + 2
  /\ UNCHANGED <<argv, phase, code, layout>>

(* A value that does not parse: return 1.                                  *)
BadSize ==
  /\ phase = "args" /\ i <= Len(argv)
  /\ argv[i] \in DOMAIN SizeFlag /\ HasValue /\ ~Parses(argv[i + 1])
  /\ phase' = "exit" /\ code' = 1
  /\ UNCHANGED <<argv, i, opt, layout>>

(* --help or -h: print the usage and return 0.                             *)
Help ==
  /\ phase = "args" /\ i <= Len(argv)
  /\ argv[i] \in {"--help", "-h"}
  /\ phase' = "exit" /\ code' = 0
  /\ UNCHANGED <<argv, i, opt, layout>>

(* Any other word, and a flag that is the last word: ignored.              *)
SkipWord ==
  /\ phase = "args" /\ i <= Len(argv)
  /\ ~(argv[i] \in DOMAIN PathFlag \cup DOMAIN SizeFlag /\ HasValue)
  /\ argv[i] \notin {"--help", "-h"}
  /\ i' = i + 1
  /\ UNCHANGED <<argv, opt, phase, code, layout>>

(* The layouts whose path is not empty.                                    *)
Given == {l \in {"graph", "index", "disk"} : opt[l] # ""}

(* No path, more than one, or a disk index without a valid --data-type:    *)
(* return 1.                                                               *)
NoLayout ==
  /\ phase = "args" /\ i > Len(argv)
  /\ \/ Cardinality(Given) # 1
     \/ Given = {"disk"} /\ opt.dtype \notin DataTypeNames
  /\ phase' = "exit" /\ code' = 1
  /\ UNCHANGED <<argv, i, opt, layout>>

SelectLayout ==
  /\ phase = "args" /\ i > Len(argv)
  /\ Cardinality(Given) = 1
  /\ Given = {"disk"} => opt.dtype \in DataTypeNames
  /\ layout' = CHOOSE l \in Given : TRUE
  /\ phase' = "start"
  /\ UNCHANGED <<argv, i, opt, code>>

CliParse == TakeString \/ TakeSize \/ BadSize \/ Help \/ SkipWord
CliSelect == NoLayout \/ SelectLayout

(* The exits after the stats: no node read (with or without an offset),    *)
(* and a raw graph file whose degree or size is implausible.               *)
StatsRejected(st) ==
  \/ st.total_nodes = 0
  \/ /\ layout = "graph"
     /\ st.degree_max > kMaxReasonableDegree \/ st.total_nodes > kMaxReasonableNodes

(* The phase after the summary is printed, and after the adjacency sample. *)
AfterSummary ==
  IF opt.adj > 0 THEN "adj" ELSE IF opt.small > 0 THEN "small" ELSE "exit"
AfterAdjacency == IF opt.small > 0 THEN "small" ELSE "exit"

Ended == phase \in {"exit", "abort"}

=============================================================================
