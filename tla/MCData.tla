-------------------------------- MODULE MCData --------------------------------
(* Model-checking the data structures: one of them is used, the others rest. *)
EXTENDS HashTable, ArrayTable, GrokNumber, PerlIOBuf, PerlIOAsync

CONSTANTS el1, el2, b1, b2

VARIABLE used

MCLists == {<<>>, <<el1>>, <<el1, el2>>}

MCData == {<<b1>>, <<b2>>, <<b1, b2, b2>>}

MCUnrolled == [fn \in Fns |-> IF fn = "grok_bin_oct_hex" THEN 3 ELSE 1]

\* A number that rests is a floating point one.
MCInit ==
  /\ used \in {"hash", "array", "number", "text", "file", "async"}
  /\ HashInit /\ ArrayInit /\ GrokInit /\ FileInit /\ AsyncInit
  /\ IF used = "number" THEN ArithInit ELSE sv = Double
  /\ used # "text" => text.fn = "grok_number" /\ ~text.neg
  /\ used # "file" => ~io.append
  /\ used # "async" => f.mode = "r"

MCNext ==
  \/ used = "hash" /\ HashNext /\ UNCHANGED <<used, av, sv, grok_vars, io, async_vars>>
  \/ used = "array" /\ ArrayNext /\ UNCHANGED <<used, hash_vars, sv, grok_vars, io, async_vars>>
  \/ used = "number" /\ ArithNext /\ UNCHANGED <<used, hash_vars, av, grok_vars, io, async_vars>>
  \/ used = "text" /\ GrokNext /\ UNCHANGED <<used, hash_vars, av, sv, io, async_vars>>
  \/ used = "file" /\ FileNext /\ UNCHANGED <<used, hash_vars, av, sv, grok_vars, async_vars>>
  \/ used = "async" /\ AsyncNext /\ UNCHANGED <<used, hash_vars, av, sv, grok_vars, io>>

MCSpec == MCInit /\ [][MCNext]_<<used, hash_vars, av, sv, grok_vars, io, async_vars>>

\* The variables of all data structures keep their types.
TypesOK ==
  HashTypeOK /\ ArrayTypeOK /\ ArithTypeOK /\ GrokTypeOK /\ FileTypeOK /\ AsyncTypeOK

=============================================================================
