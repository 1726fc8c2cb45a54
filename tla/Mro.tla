---------------------------------- MODULE Mro ----------------------------------
(***************************************************************************)
(* Method resolution and its caches: mro_core.c, gv_fetchmeth() of gv.c,   *)
(* and the cache of destructors in S_curse() of sv.c.  A package caches    *)
(* its linearization, the method found for it, and its DESTROY; PL_isarev  *)
(* says which packages a change has to be told to.                         *)
(*                                                                         *)
(* There is one method name, and DESTROY where it matters is that method.  *)
(* A generation is only compared with the current one, so an entry of an   *)
(* older generation is none.  Linearizations are depth first.              *)
(***************************************************************************)
EXTENDS Integers, Sequences, FiniteSets, SequencesExt

CONSTANTS
  Package, UNIVERSAL,
  NOCACHE, NOMETHOD, CYCLE,
  Isas,        \* bound: what the @ISA of a package is set to
  MaxVersion,  \* bound: definitions of one method
  MaxChanges,  \* bound: changes of @ISA and of methods
  Cycles       \* an @ISA may make a package its own ancestor

ASSUME MroAssumption ==
  /\ UNIVERSAL \in Package /\ IsFiniteSet(Package)
  /\ \A p \in Package : \A s \in Isas[p] : s \in Seq(Package)
  /\ {NOCACHE, CYCLE} \cap Seq(Package) = {} /\ NOCACHE # CYCLE
  /\ {NOCACHE, NOMETHOD} \cap (Package \X Nat) = {} /\ NOCACHE # NOMETHOD
  /\ {MaxVersion, MaxChanges} \subseteq Nat /\ Cycles \in BOOLEAN

\* isa: @ISA; sub: the method a package has itself, 0 if none; linear: the
\* cached linearization; isarev: PL_isarev; method and destroy: what is cached;
\* moved: the packages with a cached DESTROY whose ancestors' @ISA changed.
VARIABLES mro, changes

mro_vars == <<mro, changes>>

Method == Package \X (1 .. MaxVersion)
Cached == Method \cup {NOCACHE, NOMETHOD}

MroTypeOK ==
  /\ \A p \in Package : mro.isa[p] \in Isas[p] \cup {<<>>}
  /\ mro.sub \in [Package -> 0 .. MaxVersion]
  /\ \A p \in Package :
       mro.linear[p] # NOCACHE =>
         /\ mro.linear[p] \in Seq(Package)
         /\ Head(mro.linear[p]) = p /\ IsInjective(mro.linear[p])
  /\ mro.isarev \in [Package -> SUBSET Package]
  /\ mro.method \in [Package -> Cached] /\ mro.destroy \in [Package -> Cached]
  /\ mro.moved \subseteq Package
  /\ changes \in 0 .. MaxChanges

All(v) == [p \in Package |-> v]

MroInit ==
  /\ mro = [isa |-> All(<<>>), sub |-> All(0), linear |-> All(NOCACHE), isarev |-> All({}),
            method |-> All(NOCACHE), destroy |-> All(NOCACHE), moved |-> {}]
  /\ changes = 0

-----------------------------------------------------------------------------
(* Linearization.                                                          *)

\* Mutant: a package may come twice.
JoinedAll(s, t) == s \o t

\* A linearization with those names of another that it has not got, but for its
\* own and UNIVERSAL: "stored" has UNIVERSAL from the start, its own name last.
LinesJoined(s, t) ==
  LET upto[i \in 0 .. Len(t)] ==
        IF i = 0 THEN s
        ELSE IF t[i] \in ToSet(Tail(upto[i - 1])) \cup {UNIVERSAL} THEN upto[i - 1]
             ELSE Append(upto[i - 1], t[i])
  IN  upto[Len(t)]

\* A package and the linearizations of its parents, the first as it is.
Line(p, parents) ==
  LET line[i \in 0 .. Len(parents)] ==
        IF i = 0 THEN <<p>>
        ELSE IF i = 1 THEN <<p>> \o parents[1] ELSE LinesJoined(line[i - 1], parents[i])
  IN  line[Len(parents)]

\* One step up from what is known of the parents.
Deeper(linear, isa, below) ==
  LET parents(p) == [i \in DOMAIN isa[p] |-> below[isa[p][i]]]
      line(p) == IF CYCLE \in ToSet(parents(p)) THEN CYCLE ELSE Line(p, parents(p))
  IN  [p \in Package |-> IF linear[p] # NOCACHE THEN linear[p] ELSE line(p)]

\* S_mro_get_linear_isa_dfs(): the packages' own names, each with its parents',
\* cached or not.  It gives up when it is too deep, in a circle.
Linear(linear, isa) ==
  LET dfs[n \in 0 .. Cardinality(Package)] ==
        IF n = 0 THEN All(CYCLE) ELSE Deeper(linear, isa, dfs[n - 1])
  IN  dfs[Cardinality(Package)]

\* The packages S, and those above them up to where something is cached.
Computed(linear, isa, S) ==
  LET above(q) == IF linear[q] = NOCACHE THEN ToSet(isa[q]) ELSE {}
      reached[n \in 0 .. Cardinality(Package)] ==
        IF n = 0 THEN S ELSE reached[n - 1] \cup UNION {above(q) : q \in reached[n - 1]}
  IN  reached[Cardinality(Package)]

IsCyclic(m, p) == Linear(m.linear, m.isa)[p] = CYCLE

\* mro_get_linear_isa() of each of S.
Linearized(m, S) ==
  LET computed == Computed(m.linear, m.isa, S)
      line == Linear(m.linear, m.isa)
  IN  [m EXCEPT !.linear = [q \in Package |-> IF q \in computed THEN line[q] ELSE @[q]]]

Ancestors(lin) == ToSet(Tail(lin))

-----------------------------------------------------------------------------
(* Invalidation.                                                           *)

\* PL_sub_generation++
AllForgotten(m) == [m EXCEPT !.method = All(NOCACHE), !.destroy = All(NOCACHE), !.moved = {}]

\* cache_gen++ of each of them
MethodsForgotten(m, S) ==
  [m EXCEPT !.method = [q \in Package |-> IF q \in S THEN NOCACHE ELSE @[q]]]

\* destroy_gen = 0
DestroysForgotten(m, S) ==
  [m EXCEPT !.destroy = [q \in Package |-> IF q \in S THEN NOCACHE ELSE @[q]],
            !.moved = @ \ S]

IsUniversal(m, p) == p = UNIVERSAL \/ UNIVERSAL \in m.isarev[p]

\* mro_method_changed_in()
MethodChanged(m, p) ==
  IF IsUniversal(m, p) THEN AllForgotten(m)
  ELSE DestroysForgotten(MethodsForgotten(m, m.isarev[p]), m.isarev[p] \cup {p})

\* In PL_isarev, each of S is entered for its ancestors and taken out for those
\* that were: mro_clean_isarev(), which spares UNIVERSAL.
Registered(m, S, before) ==
  LET was(q) == IF before[q] = NOCACHE THEN {} ELSE Ancestors(before[q]) \ {UNIVERSAL}
  IN  [m EXCEPT !.isarev = [a \in Package |->
         (@[a] \ {q \in S : a \in was(q)}) \cup {q \in S : a \in Ancestors(m.linear[q])}]]

\* Mutant: linearizations of the children are kept.
WipedAlone(m, p) == [m EXCEPT !.linear[p] = NOCACHE]

\* CLEAR_LINEAR() of a package and of those that inherit from it.
Wiped(m, p) ==
  [m EXCEPT !.linear = [q \in Package |-> IF q \in {p} \cup m.isarev[p] THEN NOCACHE ELSE @[q]]]

\* mro_isa_changed_in(): first the caches of the package and of those that
\* inherit from it are wiped, then their places in PL_isarev are set right;
\* a circle is noticed in between.
IsaChanged(m, p) ==
  LET told == {p} \cup m.isarev[p]
      gone == IF IsUniversal(m, p) THEN AllForgotten(m)
              ELSE DestroysForgotten(MethodsForgotten(m, told), {p})
      stale == {q \in m.isarev[p] : gone.destroy[q] # NOCACHE}
      wiped == [Wiped(gone, p) EXCEPT !.moved = @ \cup stale]
  IN  IF \E q \in told : IsCyclic(wiped, q) THEN wiped
      ELSE Registered(Linearized(wiped, told), told, m.linear)

-----------------------------------------------------------------------------
(* Lookup.                                                                 *)

\* The method found by going through the packages, without any cache.
InLine(m, line) ==
  LET has == {i \in DOMAIN line : m.sub[line[i]] > 0}
      first == line[CHOOSE i \in has : \A j \in has : i <= j]
  IN  IF has = {} THEN NOMETHOD ELSE <<first, m.sub[first]>>

\* gv_fetchmeth_internal(): the package's own method or its cache entry, else
\* the linearization, and the result is cached.
Fetched(m, p) ==
  LET l == Linearized(m, {p})
      found == InLine(m, l.linear[p])
  IN  CASE m.sub[p] > 0 \/ m.method[p] # NOCACHE -> m
        [] m.sub[p] = 0 /\ m.method[p] = NOCACHE -> [l EXCEPT !.method[p] = found]

\* UNIVERSAL comes after what p inherits from.
Fetch(m, p) ==
  LET u == Fetched(m, p)
      v == Fetched(u, UNIVERSAL)
      inherited == IF v.sub[UNIVERSAL] > 0 THEN <<UNIVERSAL, v.sub[UNIVERSAL]>>
                   ELSE v.method[UNIVERSAL]
  IN  IF m.sub[p] > 0 \/ m.method[p] # NOCACHE \/ u.method[p] # NOMETHOD THEN u
      ELSE [v EXCEPT !.method[p] = inherited]

Result(m, p) == IF m.sub[p] > 0 THEN <<p, m.sub[p]>> ELSE m.method[p]

CanFetch(p) == ~IsCyclic(mro, p) /\ ~IsCyclic(mro, UNIVERSAL)

-----------------------------------------------------------------------------
(* The actions.                                                            *)

\* @p::ISA = s: magic_setisa()
SetIsa(p, s) ==
  LET m == [mro EXCEPT !.isa[p] = s]
  IN  /\ changes < MaxChanges /\ s # mro.isa[p] /\ changes' = changes + 1
      /\ ~Cycles => CYCLE \notin Range(Linear(All(NOCACHE), m.isa))
      /\ mro' = IsaChanged(m, p)

\* sub p::m { ... }: newATTRSUB(), and the same by assignment to the glob.  A
\* cache entry in the glob gives way.
Define(p, v) ==
  /\ changes < MaxChanges /\ v # mro.sub[p] /\ changes' = changes + 1
  /\ mro' = MethodChanged([mro EXCEPT !.sub[p] = v, !.method[p] = NOCACHE], p)

\* delete $p::{m}: hv_delete() of the stash
Delete(p) ==
  /\ changes < MaxChanges /\ mro.sub[p] > 0 /\ changes' = changes + 1
  /\ mro' = MethodChanged([mro EXCEPT !.sub[p] = 0, !.method[p] = NOCACHE], p)

\* p->m
MethodCall(p) == CanFetch(p) /\ mro' = Fetch(mro, p) /\ UNCHANGED changes

\* An object of class p is destroyed: S_curse().  The lookup creates no glob,
\* so whether it caches what it finds is left open.
DestroyObject(p) ==
  LET m == Fetch(mro, p)
      kept == [m EXCEPT !.destroy[p] = Result(m, p)]
  IN  /\ CanFetch(p) /\ mro.destroy[p] = NOCACHE
      /\ mro' \in {kept, [kept EXCEPT !.method[p] = mro.method[p]]}
      /\ UNCHANGED changes

MroNext ==
  \E p \in Package :
    \/ \E s \in Isas[p] : SetIsa(p, s)
    \/ \E v \in 1 .. MaxVersion : Define(p, v)
    \/ Delete(p) \/ MethodCall(p) \/ DestroyObject(p)

MroSpec == MroInit /\ [][MroNext]_mro_vars

-----------------------------------------------------------------------------
(* Properties.                                                             *)

Uncached == Linear(All(NOCACHE), mro.isa)

Found(line, p) == InLine(mro, line[p] \o line[UNIVERSAL])

Resolvable(line) == {p \in Package : CYCLE \notin {line[p], line[UNIVERSAL]}}

\* A method call runs what @ISA and the packages say now, whatever has been
\* called before.
CallIsCurrent ==
  LET line == Uncached
  IN  \A p \in Resolvable(line) :
        mro.sub[p] = 0 /\ mro.method[p] # NOCACHE => mro.method[p] = Found(line, p)

\* mro.pm, get_isarev: "every class that 'isa' the given class name, even if
\* the isa relationship is indirect": a change is told to all it concerns.
HeirsAreKnown ==
  LET line == Uncached
  IN  \A p \in Resolvable(line) : \A a \in Ancestors(line[p]) : p \in mro.isarev[a]

\* "This is called just like any other method", perlobj of DESTROY: the
\* destructor that is cached is the one a call would find.
DestroyIsCurrent ==
  LET line == Uncached
  IN  \A p \in Resolvable(line) :
        mro.destroy[p] # NOCACHE => mro.destroy[p] = Found(line, p)

\* It is, unless the @ISA of an ancestor has changed since it was cached.
DestroyIsCurrentUnlessMoved ==
  LET line == Uncached
  IN  \A p \in Resolvable(line) \ mro.moved :
        mro.destroy[p] # NOCACHE => mro.destroy[p] = Found(line, p)

\* The answers that are cached, of methods and of DESTROY, are those that a
\* search without caches would give.
CachesAreCurrent == CallIsCurrent /\ HeirsAreKnown /\ DestroyIsCurrentUnlessMoved

=============================================================================
