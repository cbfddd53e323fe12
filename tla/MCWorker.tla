------------------------------- MODULE MCWorker -------------------------------
(* Small instances of the worker: two llama-server models on two ports.    *)
EXTENDS Worker, TLC

ModelSpec(n, engine, port, gib, kv) ==
  [name |-> n, engine |-> engine, port |-> port, vram |-> gib, kv |-> kv, typed |-> TRUE]
Llama(n, port, gib, kv) == ModelSpec(n, "llamacpp", port, gib, kv)
Vllm(n, port, gib, kv) == ModelSpec(n, "vllm", port, gib, kv)
Remote(n) == ModelSpec(n, "remote", 0, 0, 0)
IllTyped(s) == [s EXCEPT !.typed = FALSE]

MCNames == {"a", "b"}

(* Nothing changes on disk.                                                *)
StableCatalog == ("a" :> Llama("a", 1, 1, 1)) @@ ("b" :> Llama("b", 2, 2, 0))
StableCatalogs == {StableCatalog}
StableSpecs == {StableCatalog[n] : n \in DOMAIN StableCatalog}

(* The operator drops a model, or changes the engines; a value of model b   *)
(* is ill-typed as long as it is a local one.                              *)
MistypedB == IllTyped(StableCatalog["b"])
EditedCatalogs ==
  {("a" :> StableCatalog["a"]) @@ ("b" :> MistypedB),
   "b" :> MistypedB,
   ("a" :> Vllm("a", 1, 1, 1)) @@ ("b" :> Remote("b"))}
EditedSpecs == UNION {{cat[n] : n \in DOMAIN cat} : cat \in EditedCatalogs}

OutsideA == {StableCatalog["a"]}
NoSpecs == {}

SymmetricGens == Permutations(Gens) \cup Permutations(Procs)
Symmetric == Permutations(Gens) \cup Permutations(Clients) \cup Permutations(Procs)
=============================================================================
