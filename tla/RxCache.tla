------------------------------ MODULE RxCache ------------------------------
(***************************************************************************)
(* initCache (dataset.cpp): Argon2 fills the memory of the cache, then the    *)
(* generator writes its superscalar programs.  One of the RANDOMX_CACHE_      *)
(* ACCESSES programs is modelled; they differ in what the generator draws.    *)
(* The numbering of their reciprocals is in RxItems.                         *)
(***************************************************************************)
EXTENDS RxSuperscalar, RxArgon

cacheVars == <<generatorVars, argonVars>>

CacheInit == GeneratorInit /\ ArgonInit

CacheNext ==
  \/ ArgonNext /\ UNCHANGED generatorVars
  \/ stage = "filled" /\ GeneratorNext /\ UNCHANGED argonVars

CacheSpec == CacheInit /\ [][CacheNext]_cacheVars
=============================================================================
