----------------------------- MODULE CallTrace -----------------------------
(***************************************************************************)
(* crates/decoder/src/trace.rs: the nested answer of callTracer is parsed  *)
(* and flattened into the list of frames whose order trace_log keeps.      *)
(*                                                                         *)
(* A frame of the answer is a record                                       *)
(*   [call, typed, value, error, input, output, calls]                     *)
(* where call stands for its type and addresses, typed says whether the    *)
(* field "type" is there (the one field parse_call_frame insists on),      *)
(* error whether "error" is, and calls is the sequence of nested frames.   *)
(*                                                                         *)
(* The definitions are recursive, so this module is used by TLC's runs     *)
(* only; BlockIngest takes the flattened trace as a parameter.             *)
(***************************************************************************)
EXTENDS Integers, Sequences, FiniteSets, SequencesExt

CONSTANT MaxU128    \* the largest call value that flatten_call_frame parses

\* A nested frame that does not parse is left out with everything below it.
RECURSIVE ParseCallFrame(_)
ParseCallFrame(json) ==
  LET parsed == SelectSeq(json.calls, LAMBDA child : child.typed)
  IN  [json EXCEPT !.calls = [i \in DOMAIN parsed |-> ParseCallFrame(parsed[i])]]

\* A row of trace_log; a value too wide for u128 becomes 0.
FlatFrame(frame, depth) ==
  [depth |-> depth, call |-> frame.call,
   value |-> IF frame.value <= MaxU128 THEN frame.value ELSE 0,
   error |-> frame.error, input |-> frame.input, output |-> frame.output]

\* Mutant: callees are taken from a stack, the last one first.
RECURSIVE FlattenCallFrameStack(_, _)
FlattenCallFrameStack(frame, depth) ==
  <<FlatFrame(frame, depth)>>
  \o FlattenSeq([i \in DOMAIN frame.calls |->
                   FlattenCallFrameStack(Reverse(frame.calls)[i], depth + 1)])

RECURSIVE FlattenCallFrame(_, _)
FlattenCallFrame(frame, depth) ==
  <<FlatFrame(frame, depth)>>
  \o FlattenSeq([i \in DOMAIN frame.calls |->
                   FlattenCallFrame(frame.calls[i], depth + 1)])

\* parse_trace: the empty sequence is the error of a root that does not parse.
FlattenedTrace(json) ==
  IF json.typed THEN FlattenCallFrame(ParseCallFrame(json), 0) ELSE << >>

-----------------------------------------------------------------------------
(* The reference: frames named by their path from the root *)

FrameAt(json, path) == FoldLeft(LAMBDA frame, i : frame.calls[i], json, path)

\* The paths whose frames, from the root on, all have a type.
RECURSIVE TypedPaths(_)
TypedPaths(json) ==
  {<< >>} \cup UNION {{<<i>> \o path : path \in TypedPaths(json.calls[i])} :
                        i \in {k \in DOMAIN json.calls : json.calls[k].typed}}

\* p comes before q in the document: at their first difference, or as its prefix.
Before(p, q) ==
  \/ IsStrictPrefix(p, q)
  \/ \E i \in DOMAIN p \cap DOMAIN q :
       p[i] < q[i] /\ \A k \in 1 .. (i - 1) : p[k] = q[k]

\* rows lists the frames of json in document order, each with its true depth.
ListsInOrder(rows, json) ==
  LET paths == TypedPaths(json) IN
  /\ Len(rows) = Cardinality(paths)
  /\ \A p \in paths :
       rows[1 + Cardinality({q \in paths : Before(q, p)})]
         = FlatFrame(FrameAt(json, p), Len(p))
=============================================================================
