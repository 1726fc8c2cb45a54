------------------------------- MODULE HashTable -------------------------------
(***************************************************************************)
(* A perl hash, hv.c: buckets of chained entries, one iterator kept in the *)
(* hash itself, and keys() / each() / delete() / %h = () / undef() on it.  *)
(*                                                                         *)
(* The entry under the iterator may be deleted.  It is then taken off its  *)
(* chain but not freed (HvLAZYDEL), because each() still needs its         *)
(* HeNEXT; the next move of the iterator frees it.  Every operation that   *)
(* moves entries or the iterator has to keep that pair right.              *)
(*                                                                         *)
(* %h = () and undef(%h) let go of one value at a time, and the destructor *)
(* of each may do to the same hash in between what Perl code may, emptying *)
(* it again included, within the limits set by CodeRuns, BeingCleared and  *)
(* InBounds.  Values are left out, but for the placeholder of a key that   *)
(* is deleted from a restricted hash (Hash::Util).  A key is named by its  *)
(* hash value.                                                             *)
(***************************************************************************)
EXTENDS Integers, FiniteSets, SequencesExt

CONSTANTS
  Key,         \* keys, by their hash values
  InitBuckets, \* PERL_HASH_DEFAULT_HvMAX + 1
  MaxBuckets,  \* MAX_BUCKET_MAX + 1
  Rands,       \* the values of xhv_rand (bound)
  LockForms,   \* "list": lock_keys(%h, keys %h); "keys": lock_keys(%h)
  Untidy,      \* destructors change a hash whose placeholders are being freed,
               \* and unlock one that is restricted and being cleared
  MaxDepth,    \* bound: hv_clear() and hv_undef() inside of each other
  NULL

ASSUME HashAssumption ==
  /\ Key \subseteq Nat
  /\ {InitBuckets, MaxBuckets} \subseteq {2^i : i \in 0 .. 30}
  /\ InitBuckets <= MaxBuckets
  /\ Rands \subseteq 0 .. MaxBuckets - 1
  /\ LockForms \subseteq {"list", "keys"}
  /\ Untidy \in BOOLEAN
  /\ MaxDepth \in Nat
  /\ NULL \notin Key \X {1, 2}

\* What the provers are not told of ^.
ASSUME PowersAssumption == 2^0 = 1 /\ \A i \in 1 .. 30 : 2^i = 2^(i - 1) * 2

\* An HE has a key; two of one key exist while one of them is off its chain.
Entry == Key \X {1, 2}

VARIABLES
  HvARRAY,      \* per bucket, its chain of entries
  allocated,    \* the entries that are not free memory
  placeholder,  \* entries whose value is PL_sv_placeholder
  xhv_keys,     \* HvTOTALKEYS
  HvPLACEHOLDERS,
  xhv_riter,    \* the iterator's bucket, -1 before the first
  xhv_eiter,    \* the iterator's entry
  xhv_rand,     \* the order in which the iterator takes the buckets
  HvLAZYDEL,
  lazynext,     \* HeNEXT of the entry that is off its chain
  READONLY,     \* a restricted hash
  emptying,     \* the calls of hv_clear() and hv_undef() that have not returned
  owed,         \* history: keys this iteration has still to return
  spoiled       \* history: something was inserted during this iteration

table == <<HvARRAY, allocated, placeholder, xhv_keys, HvPLACEHOLDERS>>
iterator == <<xhv_riter, xhv_eiter, HvLAZYDEL, lazynext>>
history == <<owed, spoiled>>
hash_vars == <<table, iterator, xhv_rand, READONLY, emptying, history>>

HvMAX == Cardinality(DOMAIN HvARRAY) - 1
Linked == UNION {ToSet(HvARRAY[b]) : b \in DOMAIN HvARRAY}
Used == Linked \ placeholder
UsedKeys == {e[1] : e \in Used}
Idle == xhv_riter = -1 /\ xhv_eiter = NULL

\* A call of hv_clear() or hv_undef(), with hv_free_entries()'s index, that has
\* let go of a value, for a placeholder has no destructor, ...
Freeing(how, index, value) ==
  [how |-> how, index |-> index, value |-> value, entry |-> NULL, max |-> 0]
\* ... and one of hv_clear() on a restricted hash, at an entry of a bucket.
Restricted(index, entry, max) ==
  [how |-> "restricted", index |-> index, value |-> TRUE, entry |-> entry, max |-> max]
Clearing == emptying # <<>> /\ Last(emptying).how = "restricted"

\* clear_placeholders() finds as many as the counter says (what comes of the
\* assertion that it does is left out: see ClearFindsPlaceholders).
Counted == HvPLACEHOLDERS = Cardinality(placeholder)

\* Perl code may run: between statements, or in a destructor.
CodeRuns ==
  /\ emptying # <<>> => Last(emptying).value
  /\ ~Untidy => Counted

\* The entries at which a restricted hash is being cleared.  hv_clear() has let
\* go of the value and is still to read the entry: nothing here lets go of the
\* value again, or frees the entry.
BeingCleared ==
  LET at == {i \in DOMAIN emptying : emptying[i].how = "restricted"}
  IN  {emptying[i].entry : i \in at}

\* hfree_next_entry() takes its index for one of the array, also when undef(%h)
\* has made that smaller: nothing here is stored in a hash then.
InBounds == \A i \in DOMAIN emptying : emptying[i].index <= HvMAX

HashTypeOK ==
  /\ \E n \in {2^i : i \in 0 .. 30} :
       n <= MaxBuckets /\ HvARRAY \in [0 .. n - 1 -> Seq(Entry)]
  /\ allocated \subseteq Entry
  /\ placeholder \subseteq Entry
  /\ xhv_keys \in Nat
  /\ HvPLACEHOLDERS \in Nat
  /\ xhv_riter \in -1 .. MaxBuckets - 1
  /\ xhv_eiter \in Entry \cup {NULL}
  /\ xhv_rand \in Rands
  /\ HvLAZYDEL \in BOOLEAN
  /\ lazynext \in Entry \cup {NULL}
  /\ READONLY \in BOOLEAN
  /\ emptying \in Seq([how : {"clear", "undef", "restricted"}, index : 0 .. MaxBuckets - 1,
                       value : BOOLEAN, entry : Entry \cup {NULL}, max : 0 .. MaxBuckets - 1])
  /\ owed \subseteq Key
  /\ spoiled \in BOOLEAN

Empty == [b \in 0 .. InitBuckets - 1 |-> <<>>]

HashInit ==
  /\ HvARRAY = Empty
  /\ allocated = {}
  /\ placeholder = {}
  /\ xhv_keys = 0
  /\ HvPLACEHOLDERS = 0
  /\ xhv_riter = -1
  /\ xhv_eiter = NULL
  /\ xhv_rand \in Rands
  /\ HvLAZYDEL = FALSE
  /\ lazynext = NULL
  /\ READONLY = FALSE
  /\ emptying = <<>>
  /\ owed = {}
  /\ spoiled = FALSE

-----------------------------------------------------------------------------
(* Chains.                                                                 *)

BucketOf(k, n) == k % n

\* The chain that e is on, from e on.
From(array, e) ==
  LET b == CHOOSE b \in DOMAIN array : e \in ToSet(array[b])
      i == CHOOSE i \in DOMAIN array[b] : array[b][i] = e
  IN  SubSeq(array[b], i, Len(array[b]))

\* Mutant: the deferred entry has no HeNEXT any more.
HeNEXTLost(array, e) ==
  IF e \notin UNION {ToSet(array[b]) : b \in DOMAIN array} \/ Len(From(array, e)) = 1
    THEN NULL
    ELSE From(array, e)[2]

HeNEXT(array, e) ==
  CASE e \notin UNION {ToSet(array[b]) : b \in DOMAIN array} -> lazynext
    [] Len(From(array, e)) = 1 -> NULL
    [] OTHER -> From(array, e)[2]

\* The first entry at e or after it that is not in skip.
FirstOf(array, e, skip) ==
  LET chain == From(array, e)
      left == {i \in DOMAIN chain : chain[i] \notin skip}
  IN  IF e = NULL \/ left = {} THEN NULL ELSE chain[Min(left)]

\* The entries of a chain that are in S.
Only(chain, S) ==
  LET upto[i \in 0 .. Len(chain)] ==
        IF i = 0 THEN <<>>
        ELSE IF chain[i] \in S THEN Append(upto[i - 1], chain[i]) ELSE upto[i - 1]
  IN  upto[Len(chain)]

Without(array, S) == [b \in DOMAIN array |-> Only(array[b], Entry \ S)]

\* An entry goes on top of its chain or, by PL_hash_rand_bits, second.
Inserted(chain, e) ==
  {<<e>> \o chain} \cup
  (IF chain = <<>> THEN {} ELSE {<<chain[1], e>> \o Tail(chain)})

\* What a chain may be of which the entries are inserted in this order.
Rebuilt(entries) ==
  LET chains[i \in 0 .. Len(entries)] ==
        IF i = 0 THEN {<<>>} ELSE UNION {Inserted(c, entries[i]) : c \in chains[i - 1]}
  IN  chains[Len(entries)]

DoHSplit(keys, max) == keys + keys \div 2 > max /\ max < MaxBuckets - 1

\* hsplit() to n buckets: what stays keeps its order, what moves is inserted
\* into its new chain one by one.
HSplit(array, n) ==
  LET old == Cardinality(DOMAIN array)
      To(b) == Only(array[b % old], {e \in Entry : BucketOf(e[1], n) = b})
      May(b) == IF b < old THEN {To(b)} ELSE Rebuilt(To(b))
  IN  {f \in [0 .. n - 1 -> UNION {May(b) : b \in 0 .. n - 1}] :
         \A b \in 0 .. n - 1 : f[b] \in May(b)}

-----------------------------------------------------------------------------
(* Freeing entries.                                                        *)

\* Mutant: the entry under the iterator is taken off and not marked.
DeferredUnmarked(S) == HvLAZYDEL

Deferred(S) == HvLAZYDEL \/ xhv_eiter \in S

\* The entries S leave the chains of array (which has the entries new as
\* well).  The one under the iterator is kept, for the iterator to free, and
\* HeNEXT of such an entry is moved past the others of S.
FreeOrDefer(array, S, new) ==
  LET Past(e) == FirstOf(array, e, S)
  IN  /\ allocated' = (allocated \cup new) \ (S \ {xhv_eiter})
      /\ placeholder' = placeholder \ S
      /\ HvLAZYDEL' = Deferred(S)
      /\ lazynext' = CASE xhv_eiter \in S -> Past(HeNEXT(array, xhv_eiter))
                       [] OTHER           -> Past(lazynext)

\* What the iterator has to free when it moves.
Kept == IF HvLAZYDEL /\ xhv_eiter # NULL THEN {xhv_eiter} ELSE {}

\* The iterator goes back to the start, and frees what it kept; the entries
\* in freed are freed too.
ResetIterator(freed) ==
  /\ allocated' = allocated \ (freed \cup Kept)
  /\ HvLAZYDEL' = FALSE
  /\ lazynext' = NULL
  /\ xhv_riter' = -1
  /\ xhv_eiter' = NULL
  /\ owed' = {}
  /\ spoiled' = FALSE

-----------------------------------------------------------------------------
(* Storing and deleting.                                                   *)

\* A key comes into the hash during an iteration.
Spoil ==
  /\ spoiled' = ~Idle
  /\ owed' = {}

\* $h{k} = v, where the slot of the deleted key is still there.
StoreInPlaceholder(k) ==
  \E e \in placeholder :
    /\ e[1] = k
    /\ placeholder' = placeholder \ {e}
    /\ HvPLACEHOLDERS' = HvPLACEHOLDERS - 1
    /\ Spoil
    /\ UNCHANGED <<HvARRAY, allocated, xhv_keys, iterator, xhv_rand, READONLY,
                   emptying>>

\* A new entry for k collides, and with it the table is full.
MustGrow(k, keys) ==
  HvARRAY[BucketOf(k, HvMAX + 1)] # <<>> /\ DoHSplit(keys, HvMAX)

\* $h{k} = v for a new key.  A restricted hash croaks.  A chain that collides
\* in a full table first gets rid of placeholders, then splits.
Insert(k) ==
  /\ k \notin {e[1] : e \in Linked}
  /\ ~READONLY /\ InBounds
  /\ MustGrow(k, xhv_keys + 1) => Counted
  /\ \E e \in Entry \ allocated :
       LET b == BucketOf(k, HvMAX + 1)
           purged == IF MustGrow(k, xhv_keys + 1) THEN placeholder ELSE {}
           keys == xhv_keys + 1 - Cardinality(purged)
       IN  /\ e[1] = k /\ (e[2] = 2 => <<k, 1>> \in allocated)
           /\ \E chain \in Inserted(HvARRAY[b], e) :
                LET array == [HvARRAY EXCEPT ![b] = chain]
                    swept == Without(array, purged)
                IN  /\ HvARRAY' \in IF MustGrow(k, keys) THEN HSplit(swept, 2 * (HvMAX + 1))
                                                  ELSE {swept}
                    /\ FreeOrDefer(array, purged, {e})
           /\ HvPLACEHOLDERS' = HvPLACEHOLDERS - Cardinality(purged)
           /\ xhv_keys' = keys
  /\ xhv_rand' \in Rands
  /\ Spoil
  /\ UNCHANGED <<xhv_riter, xhv_eiter, READONLY, emptying>>

\* delete $h{k}: a restricted hash keeps the slot.
Delete(k) ==
  \E e \in Used :
    /\ e[1] = k /\ e \notin BeingCleared
    /\ IF READONLY
         THEN /\ placeholder' = placeholder \cup {e}
              /\ HvPLACEHOLDERS' = HvPLACEHOLDERS + 1
              /\ UNCHANGED <<HvARRAY, allocated, xhv_keys, HvLAZYDEL, lazynext>>
         ELSE /\ HvARRAY' = Without(HvARRAY, {e})
              /\ xhv_keys' = xhv_keys - 1
              /\ FreeOrDefer(HvARRAY, {e}, {})
              /\ UNCHANGED HvPLACEHOLDERS
    /\ owed' = owed \ {k}
    /\ UNCHANGED <<xhv_riter, xhv_eiter, xhv_rand, READONLY, emptying, spoiled>>

\* keys %h = n, or a list assigned to the emptied hash: more buckets.  Both
\* callers have just reset the iterator.
KSplit(n) ==
  /\ Idle
  /\ n > HvMAX + 1 /\ n <= MaxBuckets
  /\ HvARRAY' \in HSplit(HvARRAY, n)
  /\ xhv_rand' \in Rands
  /\ UNCHANGED <<allocated, placeholder, xhv_keys, HvPLACEHOLDERS, iterator,
                 READONLY, emptying, history>>

-----------------------------------------------------------------------------
(* The iterator.                                                           *)

\* keys(%h), values(%h): hv_iterinit().
IterInit ==
  /\ ~Idle
  /\ ResetIterator({})
  /\ UNCHANGED <<HvARRAY, placeholder, xhv_keys, HvPLACEHOLDERS, xhv_rand,
                 READONLY, emptying>>

\* The exclusive or of numbers below MaxBuckets.
Xor(x, y) ==
  LET bits == CHOOSE i \in 0 .. 30 : 2^i = MaxBuckets
      low[i \in 0 .. bits] ==
        IF i = 0 THEN 0
        ELSE low[i - 1] + 2^(i - 1) * ((x \div 2^(i - 1) + y \div 2^(i - 1)) % 2)
  IN  low[bits]

\* The first entry of bucket b that is not in skip.
FirstIn(b, skip) ==
  IF HvARRAY[b] = <<>> THEN NULL ELSE FirstOf(HvARRAY, HvARRAY[b][1], skip)

\* Where hv_iternext() goes: <<riter, entry>>.
NextPosition ==
  LET here == IF xhv_eiter = NULL THEN NULL ELSE
                FirstOf(HvARRAY, HeNEXT(HvARRAY, xhv_eiter), placeholder)
      First(r) == FirstIn(Xor(r, xhv_rand) % (HvMAX + 1), placeholder)
      later == {r \in xhv_riter + 1 .. HvMAX : First(r) # NULL}
  IN  CASE xhv_keys = HvPLACEHOLDERS -> <<-1, here>>
        [] xhv_keys # HvPLACEHOLDERS /\ here # NULL -> <<xhv_riter, here>>
        [] OTHER -> IF later = {} THEN <<-1, NULL>> ELSE <<Min(later), First(Min(later))>>

\* each(%h): hv_iternext().  The entry that was deleted under the iterator is
\* freed once the iterator is past it.
IterNext ==
  LET at == NextPosition
  IN  /\ xhv_riter' = at[1]
      /\ xhv_eiter' = at[2]
      /\ allocated' = allocated \ Kept
      /\ HvLAZYDEL' = (HvLAZYDEL /\ xhv_eiter = NULL)
      /\ lazynext' = NULL
      /\ spoiled' = (spoiled /\ at # <<-1, NULL>>)
      /\ owed' = IF spoiled \/ at[2] = NULL THEN {} ELSE
                   (IF Idle THEN UsedKeys ELSE owed) \ {at[2][1]}
      /\ UNCHANGED <<HvARRAY, placeholder, xhv_keys, HvPLACEHOLDERS, xhv_rand,
                     READONLY, emptying>>

-----------------------------------------------------------------------------
(* Emptying the hash.                                                      *)

\* hfree_next_entry() resets the iterator if it is at an entry, and frees e.
ResetIfAt(e) ==
  IF xhv_eiter # NULL THEN ResetIterator({e})
  ELSE /\ allocated' = allocated \ {e}
       /\ owed' = owed \ {e[1]}
       /\ UNCHANGED <<iterator, spoiled>>

\* One round of hv_free_entries(), called by a call below which there are
\* those of below: it takes the next entry off, from bucket ix on; the value's
\* destructor may run before the next round.  The last round finds nothing.
FreeRound(below, how, ix) ==
  /\ IF xhv_keys = 0
       THEN /\ IF xhv_eiter # NULL THEN ResetIterator({}) ELSE UNCHANGED <<allocated, iterator, history>>
            /\ emptying' = below
            /\ HvPLACEHOLDERS' = 0
            /\ HvARRAY' = IF how = "undef" THEN Empty ELSE HvARRAY
            /\ UNCHANGED <<placeholder, xhv_keys>>
       ELSE LET n == HvMAX + 1
                d == Min({d \in 0 .. HvMAX : HvARRAY[(ix + d) % n] # <<>>})
                b == (ix + d) % n
                e == HvARRAY[b][1]
            IN  /\ ResetIfAt(e)
                /\ emptying' = Append(below, Freeing(how, b, e \notin placeholder))
                /\ HvARRAY' = [HvARRAY EXCEPT ![b] = Tail(@)]
                /\ xhv_keys' = xhv_keys - 1
                /\ placeholder' = placeholder \ {e}
                /\ UNCHANGED HvPLACEHOLDERS
  /\ UNCHANGED <<xhv_rand, READONLY>>

\* %h = () and undef %h.
ClearHash ==
  /\ Len(emptying) < MaxDepth /\ BeingCleared = {}
  /\ ~READONLY \/ xhv_keys = 0
  /\ FreeRound(emptying, "clear", 0)

UndefHash ==
  /\ Len(emptying) < MaxDepth /\ BeingCleared = {}
  /\ ~READONLY
  /\ FreeRound(emptying, "undef", 0)

\* The destructor is done.
FreeNext ==
  /\ emptying # <<>> /\ ~Clearing
  /\ FreeRound(Front(emptying), Last(emptying).how, Last(emptying).index)

\* The next value in a restricted hash, after the entry e of bucket b, <<bucket,
\* entry>>: HeNEXT, then the buckets up to max.
NextValue(e, b, max, gone) ==
  LET here == IF e = NULL THEN NULL ELSE FirstOf(HvARRAY, HeNEXT(HvARRAY, e), gone)
      later == {c \in b + 1 .. max : FirstIn(c, gone) # NULL}
  IN  CASE here # NULL -> <<b, here>>
        [] here = NULL /\ later # {} -> <<Min(later), FirstIn(Min(later), gone)>>
        [] OTHER -> <<max, NULL>>

\* hv_clear() of a restricted hash goes on to the next value, and its destructor
\* may run.  A value that is read-only makes it croak.  At the end HvEITER_set()
\* drops the iterator's entry, and an iteration is not what it was.
ClearOn(below, e, b, max, gone) ==
  LET at == NextValue(e, b, max, gone)
  IN  \/ /\ at[2] # NULL
         /\ emptying' \in {below, Append(below, Restricted(at[1], at[2], max))}
         /\ owed' = owed \ {x[1] : x \in gone}
         /\ UNCHANGED <<xhv_eiter, lazynext, spoiled>>
      \/ /\ at[2] = NULL
         /\ emptying' = below
         /\ xhv_eiter' = NULL
         /\ lazynext' = NULL
         /\ owed' = {}
         /\ spoiled' = (xhv_riter # -1)

\* %h = () on a restricted hash: every value is to become a placeholder.
ClearRestricted ==
  /\ READONLY /\ xhv_keys > 0
  /\ Len(emptying) < MaxDepth /\ BeingCleared = {}
  /\ ClearOn(emptying, NULL, -1, HvMAX, placeholder)
  /\ UNCHANGED <<table, xhv_riter, HvLAZYDEL, xhv_rand, READONLY>>

\* The destructor of a value in a restricted hash is done.
ClearNext ==
  LET top == Last(emptying)
      gone == placeholder \cup {top.entry}
  IN  /\ Clearing
      /\ placeholder' = gone
      /\ HvPLACEHOLDERS' = HvPLACEHOLDERS + 1
      /\ ClearOn(Front(emptying), top.entry, top.index, top.max, gone)
      /\ UNCHANGED <<HvARRAY, allocated, xhv_keys, xhv_riter, HvLAZYDEL, xhv_rand, READONLY>>

-----------------------------------------------------------------------------
(* Restricted hashes.                                                      *)

\* lock_keys(): placeholders go; the form with a list of keys (here those of
\* the hash) also calls keys(), which resets the iterator.
Lock(form) ==
  /\ form \in LockForms
  /\ ~READONLY /\ Counted
  /\ HvARRAY' = Without(HvARRAY, placeholder)
  /\ xhv_keys' = xhv_keys - HvPLACEHOLDERS
  /\ HvPLACEHOLDERS' = 0
  /\ IF form = "list"
       THEN /\ ResetIterator(placeholder)
            /\ placeholder' = {}
       ELSE /\ FreeOrDefer(HvARRAY, placeholder, {})
            /\ UNCHANGED <<xhv_riter, xhv_eiter, history>>
  /\ READONLY' = TRUE
  /\ UNCHANGED <<xhv_rand, emptying>>

Unlock ==
  /\ READONLY /\ (BeingCleared # {} => Untidy)
  /\ READONLY' = FALSE
  /\ UNCHANGED <<table, iterator, xhv_rand, emptying, history>>

-----------------------------------------------------------------------------

Code ==
  \/ \E k \in Key : StoreInPlaceholder(k) \/ Insert(k) \/ Delete(k)
  \/ KSplit(2 * (HvMAX + 1))
  \/ IterInit \/ IterNext
  \/ ClearRestricted \/ ClearHash \/ UndefHash
  \/ \E form \in LockForms : Lock(form)
  \/ Unlock

HashNext == (CodeRuns /\ Code) \/ FreeNext \/ ClearNext

HashSpec == HashInit /\ [][HashNext]_hash_vars

-----------------------------------------------------------------------------
(* Properties.                                                             *)

\* No chain and no iterator leads to freed memory, and nothing is leaked: an
\* entry is on its chain or is the one the iterator keeps.
NothingDangles ==
  /\ allocated = Linked \cup (IF HvLAZYDEL THEN {xhv_eiter} ELSE {})
  /\ xhv_eiter = NULL \/ xhv_eiter \in allocated
  /\ lazynext = NULL \/ lazynext \in Linked

\* "entry in xhv_eiter must be deleted" (sv.h, SVphv_LAZYDEL): the flag is on
\* when, and only when, the iterator's entry is off its chain.
LazyDelIsTheIterator ==
  HvLAZYDEL <=> (xhv_eiter # NULL /\ xhv_eiter \notin Linked)

\* Every entry can be found: it is in the bucket of its hash value, once, and
\* no other has its key; and the two counters, which decide when a hash is
\* empty and when it is grown, are the numbers of entries and placeholders.
TableIsSound ==
  /\ \A b \in DOMAIN HvARRAY :
       /\ \A e \in ToSet(HvARRAY[b]) : e[1] % (HvMAX + 1) = b
       /\ IsInjective(HvARRAY[b])
  /\ \A e, f \in Linked : e[1] = f[1] => e = f
  /\ xhv_keys = Cardinality(Linked)
  /\ emptying = <<>> \/ Clearing => Counted
  /\ placeholder \subseteq Linked

\* "You can't get here" (hv.c, S_clear_placeholders): when placeholders are
\* cleared out before a split, there are as many as the counter says.
ClearFindsPlaceholders ==
  \A k \in Key :
    CodeRuns /\ ~READONLY /\ k \notin {e[1] : e \in Linked} /\ MustGrow(k, xhv_keys + 1)
      /\ HvPLACEHOLDERS > 0
      => Counted

\* Unless something is inserted while it runs, each() returns every key that
\* is not deleted first, once, and then the end, although any keys, the
\* current one too, are deleted meanwhile ("it is always safe to delete the
\* item most recently returned by each", perlfunc).
EachReturnsAllOnce ==
  [][IterNext /\ ~spoiled =>
       LET due == IF Idle THEN UsedKeys ELSE owed
       IN  IF xhv_eiter' = NULL THEN due = {} ELSE xhv_eiter'[1] \in due]_hash_vars

\* Whatever is stored, deleted, iterated over, split or cleared, in whatever
\* order, by the program or by a destructor that may run in between: every
\* entry is found, counted and freed exactly once.
HashIsSound == NothingDangles /\ LazyDelIsTheIterator /\ TableIsSound

=============================================================================
