--------------------------- MODULE CodeTable_proofs ---------------------------
(***************************************************************************)
(* Proofs about the Perl subs that JavaScript has, for any number of subs, *)
(* addresses and calls and any nesting: a callback finds its own sub, and  *)
(* a call its own result.                                                  *)
(***************************************************************************)
EXTENDS CodeTable, SequenceTheorems, TLAPS

\* What the properties rest on.  A sub that exists has been made, and one that
\* is in a frame or in the table exists.
OnlyTheMadeExist == \A s \in Subs : addr[s] # NoCode => s \in made
RunsWhatExists ==
  \A k \in 1 .. Len(frames) : frames[k].sub # NoCode => addr[frames[k].sub] # NoCode
KeysAreAddresses ==
  \A a \in Addrs : code_table[a] # NoCode => addr[code_table[a]] = a

\* The address of a sub never changes, as long as there is one.
CallbackKeepsAddress ==
  \A c \in callbacks : c.key # Name => c.sub \in made /\ addr[c.sub] \in {c.key, NoCode}

\* JavaScript has no other interest in it than the table's.
RegisteredIsInTable ==
  \A c \in callbacks : c.key # Name /\ c.sub \notin unregistered =>
    addr[c.sub] = c.key /\ code_table[c.key] = c.sub

CallsAreNumbered == \A k \in 1 .. Len(frames) : frames[k].call \in 1 .. calls

TableInv ==
  /\ CodeTypeOK
  /\ CallsAreNumbered
  /\ OnlyTheMadeExist
  /\ RunsWhatExists
  /\ KeysAreAddresses
  /\ CallbackKeepsAddress
  /\ RegisteredIsInTable

-----------------------------------------------------------------------------
(* The stack of calls.                                                     *)

LEMMA TopFacts ==
  ASSUME CodeTypeOK, frames # <<>>
  PROVE  /\ Len(frames) \in Nat \ {0}
         /\ CodeTop = frames[Len(frames)]
         /\ CodeTop \in Frames
         /\ \A k \in 1 .. Len(frames) : frames[k] \in Frames
<1>1. frames \in Seq(Frames) /\ Len(frames) \in Nat \ {0}
  BY EmptySeq, LenProperties DEF CodeTypeOK
<1>2. \A k \in 1 .. Len(frames) : frames[k] \in Frames
  BY <1>1, ElementOfSeq
<1>3. CodeTop = frames[Len(frames)]
  BY DEF CodeTop, Last
<1> QED
  BY <1>1, <1>2, <1>3

LEMMA SetTopStep ==
  ASSUME CodeTypeOK, frames # <<>>, NEW f \in Frames, SetTop(f)
  PROVE  /\ frames' \in Seq(Frames)
         /\ Len(frames') = Len(frames)
         /\ frames'[Len(frames)] = f
         /\ \A k \in 1 .. Len(frames) : k # Len(frames) => frames'[k] = frames[k]
<1>1. frames \in Seq(Frames) /\ Len(frames) \in Nat \ {0}
  BY TopFacts DEF CodeTypeOK
<1> QED
  BY <1>1 DEF SetTop

LEMMA FrontOfSeq ==
  ASSUME NEW S, NEW q \in Seq(S), NEW n \in Nat, Len(q) = n + 1
  PROVE  /\ Front(q) \in Seq(S)
         /\ Len(Front(q)) = n
         /\ \A k \in 1 .. n : Front(q)[k] = q[k]
<1>1. Front(q) = SubSeq(q, 1, n)
  BY DEF Front
<1>2. \A i \in 1 .. n : q[i] \in S
  BY ElementOfSeq
<1>3. /\ SubSeq(q, 1, n) \in Seq(S)
      /\ Len(SubSeq(q, 1, n)) = IF 1 <= n THEN n - 1 + 1 ELSE 0
      /\ \A i \in 1 .. n - 1 + 1 : SubSeq(q, 1, n)[i] = q[1 + i - 1]
  BY <1>2, SubSeqProperties
<1>4. (1 <= n \/ n = 0) /\ n - 1 + 1 = n /\ \A i \in 1 .. n : 1 + i - 1 = i
  OBVIOUS
<1>5. Len(Front(q)) = n
  BY <1>1, <1>3, <1>4
<1> QED
  BY <1>1, <1>3, <1>4, <1>5

LEMMA PopStep ==
  ASSUME CodeTypeOK, frames # <<>>, frames' = Front(frames)
  PROVE  /\ frames' \in Seq(Frames)
         /\ Len(frames') = Len(frames) - 1
         /\ \A k \in 1 .. Len(frames) - 1 : frames'[k] = frames[k]
<1>1. frames \in Seq(Frames) /\ Len(frames) - 1 \in Nat /\ Len(frames) = (Len(frames) - 1) + 1
  BY TopFacts DEF CodeTypeOK
<1> QED
  BY <1>1, FrontOfSeq

-----------------------------------------------------------------------------
(* References.                                                             *)

\* What the running code can get at exists.
LEMMA HasExists ==
  ASSUME TableInv, NEW s \in Subs, Has(s)
  PROVE  addr[s] \in Addrs /\ s \in made /\ Key(s) \in Keys
<1>1. addr[s] # NoCode
  <2>1. CASE s \in held \/ s = symtab
    BY <2>1, NamesAssumption DEF TableInv, CodeTypeOK
  <2>2. CASE TopIs("run") /\ CodeTop.sub = s
    BY <2>2, TopFacts, NamesAssumption DEF TopIs, TableInv, RunsWhatExists
  <2> QED BY <2>1, <2>2 DEF Has
<1> QED
  BY <1>1 DEF TableInv, CodeTypeOK, OnlyTheMadeExist, Key, Keys

\* When references are dropped, what is not freed keeps its address.
LEMMA CodeFreeStep ==
  ASSUME TableInv, CodeFree,
         held' \subseteq made, symtab' \in Subs \cup {NoCode},
         \A s \in Subs : s \in held' \/ s = symtab' => addr[s] # NoCode,
         frames' \in Seq(Frames),
         \A k \in 1 .. Len(frames') : frames'[k].sub # NoCode => addr[frames'[k].sub] # NoCode,
         \A a \in Addrs : code_table'[a] \in {code_table[a], NoCode},
         code_table' \in [Addrs -> Subs \cup {NoCode}],
         \A c \in callbacks : c.key # Name /\ c.sub \notin unregistered'
           => c.sub \notin unregistered /\ code_table'[c.key] = code_table[c.key],
         made' = made, callbacks' = callbacks
  PROVE  /\ addr' \in [Subs -> Addrs \cup {NoCode}]
         /\ \A s, u \in Subs : s # u /\ addr'[s] = addr'[u] => addr'[s] = NoCode
         /\ \A s \in held' \cup ({symtab'} \ {NoCode}) : addr'[s] # NoCode
         /\ OnlyTheMadeExist' /\ RunsWhatExists' /\ KeysAreAddresses'
         /\ CallbackKeepsAddress' /\ RegisteredIsInTable'
<1>1. /\ addr \in [Subs -> Addrs \cup {NoCode}]
      /\ made \subseteq Subs
      /\ callbacks \subseteq [key : Keys, sub : Subs]
      /\ \A s, u \in Subs : s # u /\ addr[s] = addr[u] => addr[s] = NoCode
  BY DEF TableInv, CodeTypeOK
<1>2. \A s \in Subs : addr'[s] \in {addr[s], NoCode}
  BY DEF CodeFree
<1>3. addr' \in [Subs -> Addrs \cup {NoCode}]
  BY <1>1 DEF CodeFree
<1>4. \A s, u \in Subs : s # u /\ addr'[s] = addr'[u] => addr'[s] = NoCode
  BY <1>1, <1>2
<1>5. \A s \in Subs : s \in held' \/ s = symtab' => addr'[s] = addr[s]
  BY DEF CodeFree, InCode
<1>6. DOMAIN frames' = 1 .. Len(frames')
  BY LenProperties
<1>7. \A k \in 1 .. Len(frames') : frames'[k].sub # NoCode => addr'[frames'[k].sub] = addr[frames'[k].sub]
  <2> SUFFICES ASSUME NEW k \in 1 .. Len(frames'), frames'[k].sub # NoCode
               PROVE  addr'[frames'[k].sub] = addr[frames'[k].sub]
    OBVIOUS
  <2>1. frames'[k] \in Frames
    BY ElementOfSeq
  <2>3. frames'[k].sub \in Subs
    BY <2>1 DEF Frames
  <2>2. InCode(frames'[k].sub)
    BY <1>6 DEF InCode
  <2> QED BY <2>3, <2>2 DEF CodeFree
<1>8. \A a \in Addrs : code_table'[a] # NoCode => addr'[code_table'[a]] = a
  <2> SUFFICES ASSUME NEW a \in Addrs, code_table'[a] # NoCode
               PROVE  addr'[code_table'[a]] = a
    OBVIOUS
  <2>1. code_table'[a] \in Subs /\ code_table'[a] = code_table[a] /\ addr[code_table[a]] = a
    BY DEF TableInv, KeysAreAddresses
  <2>2. InTable(code_table'[a])
    BY <2>1, NamesAssumption DEF InTable
  <2> QED BY <2>1, <2>2 DEF CodeFree
<1>9. RegisteredIsInTable'
  <2> SUFFICES ASSUME NEW c \in callbacks, c.key # Name, c.sub \notin unregistered'
               PROVE  addr'[c.sub] = c.key /\ code_table'[c.key] = c.sub
    BY DEF RegisteredIsInTable
  <2>1. c.sub \in Subs /\ c.key \in Addrs
    BY <1>1 DEF Keys
  <2>2. addr[c.sub] = c.key /\ code_table[c.key] = c.sub /\ code_table'[c.key] = c.sub
    BY DEF TableInv, RegisteredIsInTable
  <2>3. InTable(c.sub)
    BY <2>1, <2>2, NamesAssumption DEF InTable
  <2> QED BY <2>1, <2>2, <2>3 DEF CodeFree
<1>10. OnlyTheMadeExist' /\ CallbackKeepsAddress'
  BY <1>1, <1>2 DEF TableInv, OnlyTheMadeExist, CallbackKeepsAddress
<1>11. RunsWhatExists' /\ KeysAreAddresses'
  BY <1>7, <1>8 DEF RunsWhatExists, KeysAreAddresses
<1>12. \A s \in held' \cup ({symtab'} \ {NoCode}) : addr'[s] # NoCode
  <2>1. \A s \in held' \cup ({symtab'} \ {NoCode}) : s \in Subs /\ (s \in held' \/ s = symtab')
    BY <1>1
  <2> QED BY <2>1, <1>5
<1> QED
  BY <1>3, <1>4, <1>9, <1>10, <1>11, <1>12

-----------------------------------------------------------------------------
(* The table.                                                              *)

LEMMA WithoutStep ==
  ASSUME TableInv, NEW s \in Subs, addr[s] \in Addrs
  PROVE  /\ Without(s) \in [Addrs -> Subs \cup {NoCode}]
         /\ \A a \in Addrs : Without(s)[a] \in {code_table[a], NoCode}
         /\ \A c \in callbacks : c.key # Name /\ c.sub \notin unregistered /\ c.sub # s
              => Without(s)[c.key] = code_table[c.key]
<1>1. /\ code_table \in [Addrs -> Subs \cup {NoCode}]
      /\ callbacks \subseteq [key : Keys, sub : Subs]
      /\ \A t, u \in Subs : t # u /\ addr[t] = addr[u] => addr[t] = NoCode
  BY DEF TableInv, CodeTypeOK
<1>2. \A c \in callbacks : c.key # Name /\ c.sub \notin unregistered /\ c.sub # s
        => c.key \in Addrs /\ c.key # addr[s]
  BY <1>1, NamesAssumption DEF TableInv, RegisteredIsInTable, Keys
<1> QED
  BY <1>1, <1>2 DEF Without

\* The entry that is made is for the address of the sub, and nobody else's.
LEMMA RegisterStep ==
  ASSUME TableInv, NEW S, S = {} \/ \E s \in Subs : S = {s} /\ Has(s),
         NEW ct \in [Addrs -> Subs \cup {NoCode}], NEW gone \in SUBSET made,
         \A a \in Addrs : ct[a] \in {code_table[a], NoCode},
         \A c \in callbacks : c.key # Name /\ c.sub \notin unregistered \cup gone
           => ct[c.key] = code_table[c.key],
         Register(S, ct, gone), addr' = addr, made' = made
  PROVE  /\ code_table' \in [Addrs -> Subs \cup {NoCode}]
         /\ callbacks' \subseteq [key : Keys, sub : Subs]
         /\ unregistered' \subseteq made
         /\ KeysAreAddresses' /\ CallbackKeepsAddress' /\ RegisteredIsInTable'
<1>1. /\ addr \in [Subs -> Addrs \cup {NoCode}]
      /\ made \subseteq Subs /\ unregistered \subseteq made
      /\ callbacks \subseteq [key : Keys, sub : Subs]
      /\ \A t, u \in Subs : t # u /\ addr[t] = addr[u] => addr[t] = NoCode
  BY DEF TableInv, CodeTypeOK
<1>2. \A c \in callbacks : c.key # Name => c.sub \in Subs /\ c.key \in Addrs
  BY <1>1 DEF Keys
<1>3. CASE S = {}
  <2>1. code_table' = ct /\ callbacks' = callbacks /\ unregistered' = unregistered \cup gone
    BY <1>3 DEF Register, CodeRegistered
  <2>2. KeysAreAddresses'
    BY <2>1 DEF TableInv, KeysAreAddresses
  <2>3. CallbackKeepsAddress' /\ RegisteredIsInTable'
    BY <2>1 DEF TableInv, CallbackKeepsAddress, RegisteredIsInTable
  <2> QED BY <1>1, <2>1, <2>2, <2>3
<1>4. ASSUME NEW s \in Subs, S = {s}, Has(s)
      PROVE  /\ code_table' \in [Addrs -> Subs \cup {NoCode}]
             /\ callbacks' \subseteq [key : Keys, sub : Subs]
             /\ unregistered' \subseteq made
             /\ KeysAreAddresses' /\ CallbackKeepsAddress' /\ RegisteredIsInTable'
  <2>1. addr[s] \in Addrs /\ s \in made /\ Key(s) \in Keys
    BY <1>4, HasExists
  <2>2. Key(s) = Name \/ Key(s) = addr[s]
    BY DEF Key
  <2>3. code_table' = [a \in Addrs |-> IF Key(s) = a THEN s ELSE ct[a]]
    BY <1>4 DEF Register, CodeRegistered
  <2>4. callbacks' = callbacks \cup {[key |-> Key(s), sub |-> s]}
    BY <1>4 DEF Register
  <2>5. \A u : u \notin unregistered' => u \notin unregistered \cup gone \/ (u = s /\ Key(s) # Name)
    BY <1>4 DEF Register
  <2>6. unregistered' \subseteq made
    BY <1>1 DEF Register
  <2>7. code_table' \in [Addrs -> Subs \cup {NoCode}]
    BY <2>3
  <2>8. callbacks' \subseteq [key : Keys, sub : Subs]
    BY <1>1, <2>1, <2>4
  <2>9. \A a \in Addrs : Key(s) = a => addr[s] = a
    BY <2>2, NamesAssumption
  <2>10. KeysAreAddresses'
    BY <2>3, <2>9 DEF TableInv, KeysAreAddresses
  <2>11. CallbackKeepsAddress'
    BY <2>1, <2>2, <2>4 DEF TableInv, CallbackKeepsAddress
  <2>12. RegisteredIsInTable'
    <3> SUFFICES ASSUME NEW c \in callbacks', c.key # Name, c.sub \notin unregistered'
                 PROVE  addr[c.sub] = c.key /\ code_table'[c.key] = c.sub
      BY DEF RegisteredIsInTable
    <3>1. CASE c = [key |-> Key(s), sub |-> s]
      BY <3>1, <2>1, <2>2, <2>3
    <3>2. CASE c \in callbacks /\ c.sub = s /\ Key(s) # Name
      <4>1. addr[s] = c.key
        BY <3>2, <2>1, NamesAssumption DEF TableInv, CallbackKeepsAddress
      <4> QED BY <4>1, <3>2, <2>1, <2>2, <2>3
    <3>3. CASE c \in callbacks /\ c.sub \notin unregistered \cup gone
      <4>1. addr[c.sub] = c.key /\ ct[c.key] = c.sub /\ c.sub \in Subs /\ c.key \in Addrs
        BY <3>3, <1>2 DEF TableInv, RegisteredIsInTable
      <4>2. Key(s) = c.key => s = c.sub
        BY <4>1, <2>9, <1>1, NamesAssumption
      <4> QED BY <4>1, <4>2, <2>3
    <3> QED BY <3>1, <3>2, <3>3, <2>4, <2>5
  <2> QED BY <2>6, <2>7, <2>8, <2>10, <2>11, <2>12
<1> QED
  BY <1>3, <1>4

-----------------------------------------------------------------------------
(* The table's invariant.                                                  *)

LEMMA CodeInitInv == CodeInit => TableInv
<1> SUFFICES ASSUME CodeInit PROVE TableInv
  OBVIOUS
<1>1. frames \in Seq(Frames) /\ Len(frames) = 0
  BY EmptySeq DEF CodeInit
<1>2. CodeTypeOK
  BY <1>1, BoundsAssumption, NamesAssumption DEF CodeInit, CodeTypeOK
<1> QED
  BY <1>1, <1>2 DEF CodeInit, TableInv, CallsAreNumbered, OnlyTheMadeExist, RunsWhatExists,
     KeysAreAddresses, CallbackKeepsAddress, RegisteredIsInTable

LEMMA SetTopKeeps ==
  ASSUME TableInv, frames # <<>>, NEW f \in Frames, SetTop(f), f.call = CodeTop.call,
         f.sub # NoCode => addr[f.sub] # NoCode
  PROVE  /\ frames' \in Seq(Frames) /\ Len(frames') = Len(frames)
         /\ \A k \in 1 .. Len(frames') : frames'[k].call \in 1 .. calls
         /\ \A k \in 1 .. Len(frames') : frames'[k].sub # NoCode => addr[frames'[k].sub] # NoCode
<1>1. CodeTypeOK /\ CallsAreNumbered /\ RunsWhatExists
  BY DEF TableInv
<1>2. CodeTop = frames[Len(frames)] /\ Len(frames) \in 1 .. Len(frames)
  BY <1>1, TopFacts
<1>3. /\ frames' \in Seq(Frames) /\ Len(frames') = Len(frames)
      /\ \A k \in 1 .. Len(frames') : frames'[k] \in {f, frames[k]}
      /\ frames'[Len(frames)] = f
      /\ \A k \in 1 .. Len(frames) : k # Len(frames) => frames'[k] = frames[k]
  BY <1>1, SetTopStep
<1>4. \A k \in 1 .. Len(frames') : k = Len(frames) \/ frames'[k] = frames[k]
  BY <1>3
<1> QED
  BY <1>1, <1>2, <1>3, <1>4 DEF CallsAreNumbered, RunsWhatExists

LEMMA NewSubInv == ASSUME TableInv, NEW s \in Subs, NewSub(s) PROVE TableInv'
<1>1. PICK a \in Addrs : /\ \A u \in Subs : addr[u] # a
                         /\ addr' = [addr EXCEPT ![s] = a]
  BY DEF NewSub
<1>2. addr[s] = NoCode /\ s \notin made /\ made' = made \cup {s}
  BY DEF NewSub, TableInv, OnlyTheMadeExist
<1>3. UNCHANGED <<symtab, code_table, callbacks, unregistered, frames, slots, calls>>
  BY DEF NewSub
<1>4. addr \in [Subs -> Addrs \cup {NoCode}] /\ a # NoCode
  BY NamesAssumption DEF TableInv, CodeTypeOK
<1>5. \A u \in Subs : addr'[u] = IF u = s THEN a ELSE addr[u]
  BY <1>1, <1>4
<1>6. CodeTypeOK'
  <2>1. addr' \in [Subs -> Addrs \cup {NoCode}]
    BY <1>1, <1>4
  <2>2. \A t, u \in Subs : t # u /\ addr'[t] = addr'[u] => addr'[t] = NoCode
    BY <1>1, <1>4, <1>5 DEF TableInv, CodeTypeOK
  <2>3. held' \cup once' \cup named' \cup unregistered' \subseteq made' /\ made' \subseteq Subs
    BY <1>2, <1>3 DEF NewSub, TableInv, CodeTypeOK
  <2>4. \A t \in held' \cup ({symtab'} \ {NoCode}) : addr'[t] # NoCode
    <3>1. \A t \in held' \cup ({symtab'} \ {NoCode}) : t \in Subs
      BY <1>3, <2>3 DEF TableInv, CodeTypeOK
    <3>2. held' = held \cup {s}
      BY DEF NewSub
    <3> QED BY <3>1, <3>2, <1>3, <1>4, <1>5 DEF TableInv, CodeTypeOK
  <2> QED BY <2>1, <2>2, <2>3, <2>4, <1>3 DEF TableInv, CodeTypeOK, slots
<1>7. OnlyTheMadeExist' /\ CallsAreNumbered'
  BY <1>2, <1>3, <1>5 DEF TableInv, OnlyTheMadeExist, CallsAreNumbered
<1>8. RunsWhatExists'
  <2>1. \A k \in 1 .. Len(frames) : frames[k].sub \in Subs \cup {NoCode}
    <3>1. \A k \in 1 .. Len(frames) : frames[k] \in Frames
      BY ElementOfSeq DEF TableInv, CodeTypeOK
    <3> QED BY <3>1 DEF Frames
  <2> QED BY <2>1, <1>3, <1>4, <1>5 DEF TableInv, RunsWhatExists
<1>9. KeysAreAddresses'
  BY <1>2, <1>3, <1>4, <1>5, NamesAssumption DEF TableInv, CodeTypeOK, KeysAreAddresses
<1>10. CallbackKeepsAddress' /\ RegisteredIsInTable'
  <2>1. \A c \in callbacks : c.sub \in Subs /\ c.key \in Keys
    BY DEF TableInv, CodeTypeOK
  <2> QED BY <2>1, <1>2, <1>3, <1>5 DEF TableInv, CallbackKeepsAddress, RegisteredIsInTable
<1> QED
  BY <1>6, <1>7, <1>8, <1>9, <1>10 DEF TableInv

LEMMA DropInv ==
  ASSUME TableInv, NEW s \in Subs, DefineCode(s) \/ Forget(s) PROVE TableInv'
<1>1. /\ held' \subseteq held /\ s \in held /\ symtab' \in {symtab, s}
      /\ UNCHANGED <<frames, code_table, made, once, named, callbacks, unregistered, slots, calls>>
      /\ CodeFree
  BY DEF DefineCode, Forget
<1>2. \A u \in Subs : u \in held' \/ u = symtab' => addr[u] # NoCode
  BY <1>1, NamesAssumption DEF TableInv, CodeTypeOK
<1>3. held' \subseteq made /\ symtab' \in Subs \cup {NoCode} /\ frames' \in Seq(Frames)
      /\ code_table' \in [Addrs -> Subs \cup {NoCode}]
  BY <1>1 DEF TableInv, CodeTypeOK
<1>4. \A k \in 1 .. Len(frames') : frames'[k].sub # NoCode => addr[frames'[k].sub] # NoCode
  BY <1>1 DEF TableInv, RunsWhatExists
<1>5. /\ \A a \in Addrs : code_table'[a] \in {code_table[a], NoCode}
      /\ \A c \in callbacks : c.key # Name /\ c.sub \notin unregistered'
           => c.sub \notin unregistered /\ code_table'[c.key] = code_table[c.key]
      /\ made' = made /\ callbacks' = callbacks
  BY <1>1
<1>6. /\ addr' \in [Subs -> Addrs \cup {NoCode}]
      /\ \A t, u \in Subs : t # u /\ addr'[t] = addr'[u] => addr'[t] = NoCode
      /\ \A t \in held' \cup ({symtab'} \ {NoCode}) : addr'[t] # NoCode
      /\ OnlyTheMadeExist' /\ RunsWhatExists' /\ KeysAreAddresses'
      /\ CallbackKeepsAddress' /\ RegisteredIsInTable'
  BY <1>1, <1>2, <1>3, <1>4, <1>5, CodeFreeStep
<1>7. CodeTypeOK' /\ CallsAreNumbered'
  BY <1>1, <1>3, <1>6 DEF TableInv, CodeTypeOK, CallsAreNumbered, slots
<1> QED
  BY <1>6, <1>7 DEF TableInv

LEMMA PassSubInv == ASSUME TableInv, NEW s \in Subs, PassSub(s) PROVE TableInv'
<1>1. Has(s) /\ Register({s}, code_table, {}) /\ UNCHANGED <<program, addr, frames, slots, calls>>
  BY DEF PassSub
<1>2. addr' = addr /\ made' = made /\ code_table \in [Addrs -> Subs \cup {NoCode}]
  BY <1>1 DEF TableInv, CodeTypeOK, program
<1>3. /\ code_table' \in [Addrs -> Subs \cup {NoCode}]
      /\ callbacks' \subseteq [key : Keys, sub : Subs]
      /\ unregistered' \subseteq made
      /\ KeysAreAddresses' /\ CallbackKeepsAddress' /\ RegisteredIsInTable'
  <2>1. {s} = {} \/ \E t \in Subs : {s} = {t} /\ Has(t)
    BY <1>1
  <2> DEFINE S == {s}
             none == {}
  <2>2. /\ S = {} \/ \E t \in Subs : S = {t} /\ Has(t)
        /\ none \in SUBSET made /\ Register(S, code_table, none)
    BY <1>1, <2>1
  <2>3. /\ \A a \in Addrs : code_table[a] \in {code_table[a], NoCode}
        /\ \A c \in callbacks : c.key # Name /\ c.sub \notin unregistered \cup none
             => code_table[c.key] = code_table[c.key]
    OBVIOUS
  <2> HIDE DEF S, none
  <2> QED BY <2>2, <2>3, <1>2, RegisterStep
<1> QED
  BY <1>1, <1>3 DEF TableInv, CodeTypeOK, CallsAreNumbered, OnlyTheMadeExist, RunsWhatExists,
     program, slots

LEMMA UnregisterInv == ASSUME TableInv, NEW s \in Subs, Unregister(s) PROVE TableInv'
<1>1. /\ Has(s) /\ code_table' = Without(s) /\ unregistered' = unregistered \cup {s}
      /\ UNCHANGED <<held, symtab, frames, made, once, named, callbacks, slots, calls>>
      /\ CodeFree
  BY DEF Unregister
<1>2. addr[s] \in Addrs /\ s \in made
  BY <1>1, HasExists
<1>3. /\ code_table' \in [Addrs -> Subs \cup {NoCode}]
      /\ \A a \in Addrs : code_table'[a] \in {code_table[a], NoCode}
      /\ \A c \in callbacks : c.key # Name /\ c.sub \notin unregistered'
           => c.sub \notin unregistered /\ code_table'[c.key] = code_table[c.key]
  BY <1>1, <1>2, WithoutStep
<1>4. \A u \in Subs : u \in held' \/ u = symtab' => addr[u] # NoCode
  BY <1>1, NamesAssumption DEF TableInv, CodeTypeOK
<1>5. held' \subseteq made /\ symtab' \in Subs \cup {NoCode} /\ frames' \in Seq(Frames)
      /\ made' = made /\ callbacks' = callbacks
  BY <1>1 DEF TableInv, CodeTypeOK
<1>6. \A k \in 1 .. Len(frames') : frames'[k].sub # NoCode => addr[frames'[k].sub] # NoCode
  BY <1>1 DEF TableInv, RunsWhatExists
<1>7. /\ addr' \in [Subs -> Addrs \cup {NoCode}]
      /\ \A t, u \in Subs : t # u /\ addr'[t] = addr'[u] => addr'[t] = NoCode
      /\ \A t \in held' \cup ({symtab'} \ {NoCode}) : addr'[t] # NoCode
      /\ OnlyTheMadeExist' /\ RunsWhatExists' /\ KeysAreAddresses'
      /\ CallbackKeepsAddress' /\ RegisteredIsInTable'
  BY <1>1, <1>3, <1>4, <1>5, <1>6, CodeFreeStep
<1>8. CodeTypeOK' /\ CallsAreNumbered'
  BY <1>1, <1>2, <1>3, <1>5, <1>7 DEF TableInv, CodeTypeOK, CallsAreNumbered, slots
<1> QED
  BY <1>7, <1>8 DEF TableInv

LEMMA DispatchInv == ASSUME TableInv, NEW c \in callbacks, Dispatch(c) PROVE TableInv'
<1> DEFINE below == IF TopIs("destroy") THEN [frames EXCEPT ![Len(frames)].mixed = TRUE]
                                        ELSE frames
           new == [call |-> calls + 1, key |-> c.key, sub |-> NoCode, at |-> "enter",
                   mixed |-> FALSE]
<1>1. /\ calls < MaxCalls /\ Len(frames) < MaxDepth /\ calls' = calls + 1
      /\ frames' = Append(below, new)
      /\ UNCHANGED <<program, table, slots>>
  BY DEF Dispatch
<1>2. /\ frames \in Seq(Frames) /\ calls \in 0 .. MaxCalls /\ c.key \in Keys
      /\ \A k \in 1 .. Len(frames) : frames[k] \in Frames
      /\ Len(frames) \in Nat
  BY ElementOfSeq, LenProperties DEF TableInv, CodeTypeOK
<1>3. new \in Frames
  BY <1>1, <1>2, BoundsAssumption DEF Frames
<1>4. /\ below \in Seq(Frames) /\ Len(below) = Len(frames)
      /\ \A k \in 1 .. Len(frames) :
           below[k].call = frames[k].call /\ below[k].sub = frames[k].sub
  <2>1. CASE TopIs("destroy")
    <3>1. Len(frames) \in 1 .. Len(frames)
      BY <2>1, <1>2, TopFacts DEF TopIs, TableInv
    <3>2. [frames[Len(frames)] EXCEPT !.mixed = TRUE] \in Frames
      BY <3>1, <1>2 DEF Frames
    <3>3. below = [frames EXCEPT ![Len(frames)] = [frames[Len(frames)] EXCEPT !.mixed = TRUE]]
      BY <2>1
    <3> HIDE DEF below
    <3>4. below \in Seq(Frames) /\ Len(below) = Len(frames)
      BY <3>1, <3>2, <3>3, <1>2
    <3>5. \A k \in 1 .. Len(frames) :
            below[k] = IF k = Len(frames) THEN [frames[Len(frames)] EXCEPT !.mixed = TRUE]
                                          ELSE frames[k]
      BY <3>1, <3>3, <1>2
    <3> QED BY <3>1, <3>4, <3>5, <1>2 DEF Frames
  <2>2. CASE ~TopIs("destroy")
    BY <2>2, <1>2
  <2> QED BY <2>1, <2>2
<1> HIDE DEF below
<1>5. /\ frames' \in Seq(Frames) /\ Len(frames') = Len(frames) + 1
      /\ \A k \in 1 .. Len(frames) : frames'[k] = below[k]
      /\ frames'[Len(frames) + 1] = new
  BY <1>1, <1>2, <1>3, <1>4, AppendProperties
<1> HIDE DEF new
<1>6. \A k \in 1 .. Len(frames') : k \in 1 .. Len(frames) \/ k = Len(frames) + 1
  BY <1>2, <1>5
<1>7. new.call = calls + 1 /\ new.sub = NoCode
  BY DEF new
<1>8. CallsAreNumbered'
  <2> SUFFICES ASSUME NEW k \in 1 .. Len(frames') PROVE frames'[k].call \in 1 .. calls'
    BY DEF CallsAreNumbered
  <2>1. CASE k \in 1 .. Len(frames)
    BY <2>1, <1>1, <1>2, <1>4, <1>5, BoundsAssumption DEF TableInv, CallsAreNumbered
  <2>2. CASE k = Len(frames) + 1
    BY <2>2, <1>1, <1>2, <1>5, <1>7, BoundsAssumption
  <2> QED BY <2>1, <2>2, <1>6
<1>9. RunsWhatExists'
  <2> SUFFICES ASSUME NEW k \in 1 .. Len(frames'), frames'[k].sub # NoCode
               PROVE  addr[frames'[k].sub] # NoCode
    BY <1>1 DEF RunsWhatExists, table
  <2>1. k \in 1 .. Len(frames) /\ frames'[k].sub = frames[k].sub
    BY <1>4, <1>5, <1>6, <1>7
  <2> QED BY <2>1 DEF TableInv, RunsWhatExists
<1>10. CodeTypeOK'
  <2>1. calls' \in 0 .. MaxCalls /\ {call_rv', call_error'} \subseteq 0 .. calls'
    BY <1>1, <1>2, BoundsAssumption DEF TableInv, CodeTypeOK, slots
  <2>2. Len(frames') <= MaxDepth
    BY <1>1, <1>2, <1>5, BoundsAssumption
  <2> QED BY <2>1, <2>2, <1>1, <1>5 DEF TableInv, CodeTypeOK, program, table
<1> QED
  BY <1>1, <1>8, <1>9, <1>10 DEF TableInv, OnlyTheMadeExist, KeysAreAddresses,
     CallbackKeepsAddress, RegisteredIsInTable, program, table

\* Only the stack and the two slots change.
LEMMA SlotsInv ==
  ASSUME TableInv, UNCHANGED <<program, table, calls>>,
         frames' \in Seq(Frames), Len(frames') <= Len(frames),
         \A k \in 1 .. Len(frames') : frames'[k].call \in 1 .. calls,
         \A k \in 1 .. Len(frames') : frames'[k].sub # NoCode => addr[frames'[k].sub] # NoCode,
         {call_rv', call_error'} \subseteq 0 .. calls
  PROVE  TableInv'
<1>1. Len(frames') <= MaxDepth
  BY LenProperties, BoundsAssumption DEF TableInv, CodeTypeOK
<1>2. CodeTypeOK'
  BY <1>1 DEF TableInv, CodeTypeOK, program, table
<1> QED
  BY <1>2 DEF TableInv, CallsAreNumbered, OnlyTheMadeExist, RunsWhatExists, KeysAreAddresses,
     CallbackKeepsAddress, RegisteredIsInTable, program, table

\* The frame on top and what it may become.
LEMMA TopStays ==
  ASSUME TableInv, frames # <<>>
  PROVE  /\ \A at \in {"run", "leave", "back"} : [CodeTop EXCEPT !.at = at] \in Frames
         /\ \A s \in Subs \cup {NoCode}, at \in {"run", "back", "destroy"} :
              [CodeTop EXCEPT !.sub = s, !.at = at] \in Frames
         /\ CodeTop \in Frames
         /\ CodeTop.call \in 1 .. calls /\ CodeTop.call \in 0 .. calls /\ calls \in Nat
         /\ CodeTop.key \in Keys /\ CodeTop.sub \in Subs \cup {NoCode}
         /\ CodeTop.sub # NoCode => addr[CodeTop.sub] # NoCode
<1>1. CodeTop \in Frames /\ CodeTop = frames[Len(frames)] /\ Len(frames) \in 1 .. Len(frames)
  BY TopFacts DEF TableInv
<1>2. calls \in Nat
  BY BoundsAssumption DEF TableInv, CodeTypeOK
<1>3. CodeTop.call \in 1 .. calls /\ (CodeTop.sub # NoCode => addr[CodeTop.sub] # NoCode)
  BY <1>1 DEF TableInv, CallsAreNumbered, RunsWhatExists
<1>4. CodeTop.call \in 0 .. calls
  BY <1>2, <1>3
<1>5. /\ \A at \in {"run", "leave", "back"} : [CodeTop EXCEPT !.at = at] \in Frames
      /\ \A s \in Subs \cup {NoCode}, at \in {"run", "back", "destroy"} :
           [CodeTop EXCEPT !.sub = s, !.at = at] \in Frames
  BY <1>1 DEF Frames
<1> QED
  BY <1>1, <1>2, <1>3, <1>4, <1>5 DEF Frames

LEMMA CallCodeInv == ASSUME TableInv, CallCode PROVE TableInv'
<1>1. frames # <<>>
  BY DEF CallCode, TopIs
<1>2. UNCHANGED <<program, table, call_rv, calls>>
  BY DEF CallCode
<1>3. Target(CodeTop.key) \in Subs \cup {NoCode}
  BY <1>1, TopStays DEF Target, Keys, TableInv, CodeTypeOK
<1>4. Target(CodeTop.key) # NoCode => addr[Target(CodeTop.key)] # NoCode
  <2>1. CASE CodeTop.key = Name
    BY <2>1 DEF Target, TableInv, CodeTypeOK
  <2>2. CASE CodeTop.key # Name
    BY <2>2, <1>1, TopStays, NamesAssumption DEF Target, Keys, TableInv, KeysAreAddresses
  <2> QED BY <2>1, <2>2
<1>5. CASE Target(CodeTop.key) # NoCode
  <2> DEFINE f == [CodeTop EXCEPT !.sub = Target(CodeTop.key), !.at = "run"]
  <2>1. f \in Frames /\ SetTop(f) /\ f.call = CodeTop.call /\ addr[f.sub] # NoCode
        /\ UNCHANGED call_error
    BY <1>1, <1>3, <1>4, <1>5, TopStays DEF CallCode, Frames
  <2> HIDE DEF f
  <2>2. /\ frames' \in Seq(Frames) /\ Len(frames') = Len(frames)
        /\ \A k \in 1 .. Len(frames') : frames'[k].call \in 1 .. calls
        /\ \A k \in 1 .. Len(frames') : frames'[k].sub # NoCode => addr[frames'[k].sub] # NoCode
    BY <1>1, <2>1, SetTopKeeps
  <2>3. {call_rv', call_error'} \subseteq 0 .. calls /\ Len(frames') <= Len(frames)
    BY <1>2, <2>1, <2>2, LenProperties DEF TableInv, CodeTypeOK
  <2> QED BY <1>2, <2>2, <2>3, SlotsInv
<1>6. CASE Target(CodeTop.key) = NoCode
  <2> DEFINE f == [CodeTop EXCEPT !.at = "back"]
  <2>1. /\ f \in Frames /\ SetTop(f) /\ f.call = CodeTop.call
        /\ f.sub # NoCode => addr[f.sub] # NoCode
        /\ call_error' = CodeTop.call
    BY <1>1, <1>6, TopStays DEF CallCode, Frames
  <2> HIDE DEF f
  <2>2. /\ frames' \in Seq(Frames) /\ Len(frames') = Len(frames)
        /\ \A k \in 1 .. Len(frames') : frames'[k].call \in 1 .. calls
        /\ \A k \in 1 .. Len(frames') : frames'[k].sub # NoCode => addr[frames'[k].sub] # NoCode
    BY <1>1, <2>1, SetTopKeeps
  <2>3. {call_rv', call_error'} \subseteq 0 .. calls /\ Len(frames') <= Len(frames)
    <3>1. call_rv' \in 0 .. calls /\ call_error' \in 0 .. calls
      BY <1>1, <1>2, <2>1, TopStays DEF TableInv, CodeTypeOK
    <3>2. Len(frames) \in Nat
      BY <1>1, TopFacts DEF TableInv
    <3> QED BY <3>1, <3>2, <2>2
  <2> QED BY <1>2, <2>2, <2>3, SlotsInv
<1> QED BY <1>5, <1>6

LEMMA SubDiesInv == ASSUME TableInv, SubDies \/ Destroyed PROVE TableInv'
<1>1. frames # <<>>
  BY DEF SubDies, Destroyed, TopIs
<1>2. UNCHANGED <<program, table, call_rv, calls>>
  BY DEF SubDies, Destroyed, slots
<1>3. PICK at \in {"leave", "back"} : SetTop([CodeTop EXCEPT !.at = at])
  BY DEF SubDies, Destroyed
<1> DEFINE f == [CodeTop EXCEPT !.at = at]
<1>4. /\ f \in Frames /\ SetTop(f) /\ f.call = CodeTop.call
      /\ f.sub # NoCode => addr[f.sub] # NoCode
      /\ call_error' \in {CodeTop.call, call_error}
  BY <1>1, <1>3, TopStays DEF SubDies, Destroyed, slots, Frames
<1> HIDE DEF f
<1>5. /\ frames' \in Seq(Frames) /\ Len(frames') = Len(frames)
      /\ \A k \in 1 .. Len(frames') : frames'[k].call \in 1 .. calls
      /\ \A k \in 1 .. Len(frames') : frames'[k].sub # NoCode => addr[frames'[k].sub] # NoCode
  BY <1>1, <1>4, SetTopKeeps
<1>6. {call_rv', call_error'} \subseteq 0 .. calls /\ Len(frames') <= Len(frames)
  <2>1. call_rv' \in 0 .. calls /\ call_error' \in 0 .. calls
    BY <1>1, <1>2, <1>4, TopStays DEF TableInv, CodeTypeOK
  <2>2. Len(frames) \in Nat
    BY <1>1, TopFacts DEF TableInv
  <2> QED BY <2>1, <2>2, <1>5
<1> QED BY <1>2, <1>5, <1>6, SlotsInv

LEMMA BackInv == ASSUME TableInv, Back PROVE TableInv'
<1>1. frames # <<>> /\ frames' = Front(frames) /\ UNCHANGED <<program, table, calls>>
      /\ call_rv' \in {call_rv, 0} /\ call_error' \in {call_error, 0}
  BY DEF Back, TopIs
<1>2. CodeTypeOK /\ calls \in Nat /\ Len(frames) \in Nat \ {0}
  BY <1>1, TopStays, TopFacts DEF TableInv
<1>3. /\ frames' \in Seq(Frames)
      /\ Len(frames') = Len(frames) - 1
      /\ \A k \in 1 .. Len(frames) - 1 : frames'[k] = frames[k]
  BY <1>1, <1>2, PopStep
<1>4. \A k \in 1 .. Len(frames') : k \in 1 .. Len(frames) /\ frames'[k] = frames[k]
  BY <1>2, <1>3
<1>5. /\ \A k \in 1 .. Len(frames') : frames'[k].call \in 1 .. calls
      /\ \A k \in 1 .. Len(frames') : frames'[k].sub # NoCode => addr[frames'[k].sub] # NoCode
  BY <1>4 DEF TableInv, CallsAreNumbered, RunsWhatExists
<1>6. {call_rv', call_error'} \subseteq 0 .. calls /\ Len(frames') <= Len(frames)
  BY <1>1, <1>2, <1>3 DEF CodeTypeOK
<1> QED BY <1>1, <1>3, <1>5, <1>6, SlotsInv

LEMMA SubReturnsInv ==
  ASSUME TableInv, NEW R \in {{}} \cup {{s} : s \in Subs}, SubReturns(R) PROVE TableInv'
<1> DEFINE f == [CodeTop EXCEPT !.at = "leave"]
           u == CodeTop.sub
<1>1. /\ frames # <<>> /\ call_rv' = CodeTop.call /\ SetTop(f) /\ \A r \in R : Has(r)
      /\ UNCHANGED <<program, addr, call_error, calls>>
  BY DEF SubReturns, TopIs
<1>2. /\ f \in Frames /\ f.call = CodeTop.call /\ (f.sub # NoCode => addr[f.sub] # NoCode)
  BY <1>1, TopStays DEF Frames
<1>3. /\ frames' \in Seq(Frames) /\ Len(frames') = Len(frames)
      /\ \A k \in 1 .. Len(frames') : frames'[k].call \in 1 .. calls
      /\ \A k \in 1 .. Len(frames') : frames'[k].sub # NoCode => addr[frames'[k].sub] # NoCode
  <2> HIDE DEF f
  <2> QED BY <1>1, <1>2, SetTopKeeps
<1>4. call_rv' \in 0 .. calls /\ call_error' \in 0 .. calls
  BY <1>1, TopStays DEF TableInv, CodeTypeOK
<1>5. R = {} \/ \E s \in Subs : R = {s} /\ Has(s)
  BY <1>1
<1>6. addr' = addr /\ made' = made
  BY <1>1 DEF program
<1>7. /\ code_table' \in [Addrs -> Subs \cup {NoCode}]
      /\ callbacks' \subseteq [key : Keys, sub : Subs]
      /\ unregistered' \subseteq made
      /\ KeysAreAddresses' /\ CallbackKeepsAddress' /\ RegisteredIsInTable'
  <2>1. CASE u \in once
    <3>1. u \in Subs /\ u \in made /\ addr[u] \in Addrs
      <4>1. u \in made
        BY <2>1 DEF TableInv, CodeTypeOK
      <4>2. u \in Subs
        BY <4>1 DEF TableInv, CodeTypeOK
      <4>3. addr[u] # NoCode
        BY <1>1, <4>2, TopStays, NamesAssumption
      <4> QED BY <4>1, <4>2, <4>3 DEF TableInv, CodeTypeOK
    <3>2. PICK ct, gone : ct = Without(u) /\ gone = {u}
      OBVIOUS
    <3>3. /\ ct \in [Addrs -> Subs \cup {NoCode}]
          /\ \A a \in Addrs : ct[a] \in {code_table[a], NoCode}
          /\ \A c \in callbacks : c.key # Name /\ c.sub \notin unregistered \cup gone
               => ct[c.key] = code_table[c.key]
      <4>1. \A c \in callbacks : c.sub \notin unregistered \cup {u}
              => c.sub \notin unregistered /\ c.sub # u
        OBVIOUS
      <4> HIDE DEF u
      <4> QED BY <4>1, <3>1, <3>2, WithoutStep
    <3>4. gone \in SUBSET made
      BY <3>1, <3>2
    <3>5. Register(R, ct, gone)
      BY <2>1, <3>2 DEF SubReturns, Register, CodeRegistered
    <3> HIDE DEF u, f
    <3> QED BY <1>5, <1>6, <3>3, <3>4, <3>5, RegisterStep, ZenonT(60)
  <2>2. CASE u \notin once
    <3> DEFINE none == {}
    <3>1. Register(R, code_table, none) /\ none \in SUBSET made
      BY <2>2 DEF SubReturns
    <3>2. /\ code_table \in [Addrs -> Subs \cup {NoCode}]
          /\ \A a \in Addrs : code_table[a] \in {code_table[a], NoCode}
          /\ \A c \in callbacks : c.key # Name /\ c.sub \notin unregistered \cup none
               => code_table[c.key] = code_table[c.key]
      BY DEF TableInv, CodeTypeOK
    <3> HIDE DEF none
    <3> QED BY <1>5, <1>6, <3>1, <3>2, RegisterStep
  <2> QED BY <2>1, <2>2
<1>8. CodeTypeOK'
  BY <1>1, <1>3, <1>4, <1>7 DEF TableInv, CodeTypeOK, program
<1> QED
  BY <1>1, <1>3, <1>7, <1>8 DEF TableInv, CallsAreNumbered, OnlyTheMadeExist, RunsWhatExists,
     program

LEMMA LeaveInv == ASSUME TableInv, Leave PROVE TableInv'
<1>1. /\ frames # <<>> /\ CodeFree
      /\ UNCHANGED <<held, symtab, code_table, made, once, named, callbacks, unregistered,
                     slots, calls>>
  BY DEF Leave, TopIs
<1>2. PICK at \in {"back", "destroy"} : SetTop([CodeTop EXCEPT !.sub = NoCode, !.at = at])
  BY DEF Leave
<1> DEFINE f == [CodeTop EXCEPT !.sub = NoCode, !.at = at]
<1>3. f \in Frames /\ SetTop(f) /\ f.call = CodeTop.call /\ f.sub = NoCode
  BY <1>1, <1>2, TopStays DEF Frames
<1> HIDE DEF f
<1>4. /\ frames' \in Seq(Frames) /\ Len(frames') = Len(frames)
      /\ \A k \in 1 .. Len(frames') : frames'[k].call \in 1 .. calls
      /\ \A k \in 1 .. Len(frames') : frames'[k].sub # NoCode => addr[frames'[k].sub] # NoCode
  BY <1>1, <1>3, SetTopKeeps
<1>5. \A s \in Subs : s \in held' \/ s = symtab' => addr[s] # NoCode
  BY <1>1, NamesAssumption DEF TableInv, CodeTypeOK
<1>6. /\ held' \subseteq made /\ symtab' \in Subs \cup {NoCode}
      /\ code_table' \in [Addrs -> Subs \cup {NoCode}]
      /\ \A a \in Addrs : code_table'[a] \in {code_table[a], NoCode}
      /\ \A c \in callbacks : c.key # Name /\ c.sub \notin unregistered'
           => c.sub \notin unregistered /\ code_table'[c.key] = code_table[c.key]
      /\ made' = made /\ callbacks' = callbacks
  BY <1>1 DEF TableInv, CodeTypeOK
<1>7. /\ addr' \in [Subs -> Addrs \cup {NoCode}]
      /\ \A t, u \in Subs : t # u /\ addr'[t] = addr'[u] => addr'[t] = NoCode
      /\ \A t \in held' \cup ({symtab'} \ {NoCode}) : addr'[t] # NoCode
      /\ OnlyTheMadeExist' /\ RunsWhatExists' /\ KeysAreAddresses'
      /\ CallbackKeepsAddress' /\ RegisteredIsInTable'
  BY <1>1, <1>4, <1>5, <1>6, CodeFreeStep
<1>8. CodeTypeOK' /\ CallsAreNumbered'
  BY <1>1, <1>4, <1>6, <1>7 DEF TableInv, CodeTypeOK, CallsAreNumbered, slots
<1> QED
  BY <1>7, <1>8 DEF TableInv

LEMMA TableNextInv == TableInv /\ [CodeNext]_code_vars => TableInv'
<1> SUFFICES ASSUME TableInv, [CodeNext]_code_vars PROVE TableInv'
  OBVIOUS
<1>1. ASSUME NEW s \in Subs,
             NewSub(s) \/ DefineCode(s) \/ Forget(s) \/ PassSub(s) \/ Unregister(s)
      PROVE  TableInv'
  BY <1>1, NewSubInv, DropInv, PassSubInv, UnregisterInv
<1>2. ASSUME NEW c \in callbacks, Dispatch(c) PROVE TableInv'
  BY <1>2, DispatchInv
<1>3. CASE CallCode \/ SubDies \/ Leave \/ Destroyed \/ Back
  BY <1>3, CallCodeInv, SubDiesInv, LeaveInv, BackInv
<1>4. ASSUME NEW R \in {{}} \cup {{s} : s \in Subs}, SubReturns(R) PROVE TableInv'
  BY <1>4, SubReturnsInv
<1>5. CASE UNCHANGED code_vars
  <2>1. UNCHANGED <<made, held, once, named, symtab, addr, code_table, callbacks, unregistered,
                    frames, call_rv, call_error, calls>>
    BY <1>5 DEF code_vars, program, table, slots
  <2> QED
    BY <2>1 DEF TableInv, CodeTypeOK, CallsAreNumbered, OnlyTheMadeExist, RunsWhatExists,
       KeysAreAddresses, CallbackKeepsAddress, RegisteredIsInTable
<1> QED
  BY <1>1, <1>2, <1>3, <1>4, <1>5 DEF CodeNext

-----------------------------------------------------------------------------
(* Results.                                                                *)

\* Under the call on top are calls that have called JavaScript code: from a
\* sub, or from a destructor.
WaitingBelow ==
  \A k \in 1 .. Len(frames) - 1 :
    frames[k].at = "run" \/ (frames[k].at = "destroy" /\ frames[k].mixed)

\* Only a call that is being left has been mixed up, and when control is back
\* in it there is no error.
MixedIsLeaving ==
  /\ \A k \in 1 .. Len(frames) : frames[k].mixed => frames[k].at \in {"destroy", "back"}
  /\ Len(frames) > 0 /\ frames[Len(frames)].mixed => call_error = 0

\* With no call mixed up, the slots are empty until the sub on top is done, and
\* have either its result or its error from then on.
SlotsAreTheTops ==
  (\A k \in 1 .. Len(frames) : ~frames[k].mixed) =>
    /\ (Len(frames) = 0 \/ frames[Len(frames)].at \in {"enter", "run"})
         => call_rv = 0 /\ call_error = 0
    /\ (Len(frames) > 0 /\ frames[Len(frames)].at \notin {"enter", "run"})
         => \/ call_rv = frames[Len(frames)].call /\ call_error = 0
            \/ call_error = frames[Len(frames)].call /\ call_rv = 0

ResultInv == WaitingBelow /\ MixedIsLeaving /\ SlotsAreTheTops

LEMMA ResultInit == CodeInit => ResultInv
<1> SUFFICES ASSUME CodeInit PROVE ResultInv
  OBVIOUS
<1>1. Len(frames) = 0 /\ call_rv = 0 /\ call_error = 0
  BY EmptySeq DEF CodeInit
<1> QED
  BY <1>1 DEF ResultInv, WaitingBelow, MixedIsLeaving, SlotsAreTheTops

\* A step of the call on top.
LEMMA ResultTop ==
  ASSUME TableInv, ResultInv, frames # <<>>, NEW f \in Frames, SetTop(f),
         f.call = CodeTop.call, f.mixed = CodeTop.mixed,
         f.mixed => f.at \in {"destroy", "back"} /\ call_error' = call_error,
         \/ /\ CodeTop.at \in {"enter", "run"} /\ f.at = "run"
            /\ call_rv' = call_rv /\ call_error' = call_error
         \/ /\ CodeTop.at \in {"enter", "run"} /\ f.at \in {"leave", "back"}
            /\ \/ call_rv' = f.call /\ call_error' = call_error
               \/ call_error' = f.call /\ call_rv' = call_rv
         \/ /\ CodeTop.at \notin {"enter", "run"} /\ f.at \notin {"enter", "run"}
            /\ call_rv' = call_rv /\ call_error' = call_error
  PROVE  ResultInv'
<1> DEFINE n == Len(frames)
<1>1. /\ n \in Nat \ {0} /\ CodeTop = frames[n] /\ n \in 1 .. n
      /\ \A k \in 1 .. n : frames[k] \in Frames
  BY TopFacts DEF TableInv
<1>2. /\ Len(frames') = n /\ frames'[n] = f
      /\ \A k \in 1 .. n : k # n => frames'[k] = frames[k]
  BY SetTopStep DEF TableInv
<1>3. /\ \A k \in 1 .. n - 1 : k \in 1 .. n /\ k # n
      /\ \A k \in 1 .. n : k = n \/ k \in 1 .. n - 1
  BY <1>1
<1>4. \A k \in 1 .. n : frames'[k].mixed = frames[k].mixed
  BY <1>1, <1>2
<1> HIDE DEF n
<1>5. WaitingBelow'
  BY <1>2, <1>3 DEF ResultInv, WaitingBelow, n
<1>6. MixedIsLeaving'
  BY <1>1, <1>2 DEF ResultInv, MixedIsLeaving, n
<1>7. SlotsAreTheTops'
  <2> SUFFICES ASSUME \A k \in 1 .. n : ~frames'[k].mixed
               PROVE  /\ frames'[n].at \in {"enter", "run"} => call_rv' = 0 /\ call_error' = 0
                      /\ frames'[n].at \notin {"enter", "run"}
                           => \/ call_rv' = frames'[n].call /\ call_error' = 0
                              \/ call_error' = frames'[n].call /\ call_rv' = 0
    BY <1>1, <1>2 DEF SlotsAreTheTops
  <2>1. \A k \in 1 .. n : ~frames[k].mixed
    BY <1>4
  <2>2. n > 0
    BY <1>1
  <2>3. /\ CodeTop.at \in {"enter", "run"} => call_rv = 0 /\ call_error = 0
        /\ CodeTop.at \notin {"enter", "run"}
             => \/ call_rv = f.call /\ call_error = 0
                \/ call_error = f.call /\ call_rv = 0
    BY <1>1, <2>1, <2>2 DEF ResultInv, SlotsAreTheTops, n
  <2> QED BY <1>2, <2>3
<1> QED
  BY <1>5, <1>6, <1>7 DEF ResultInv

LEMMA ResultDispatch ==
  ASSUME TableInv, ResultInv, NEW c \in callbacks, Dispatch(c) PROVE ResultInv'
<1> DEFINE n == Len(frames)
           below == IF TopIs("destroy") THEN [frames EXCEPT ![n].mixed = TRUE] ELSE frames
           new == [call |-> calls + 1, key |-> c.key, sub |-> NoCode, at |-> "enter",
                   mixed |-> FALSE]
<1>1. /\ UserCode /\ frames' = Append(below, new)
      /\ call_rv' = call_rv /\ call_error' = call_error
  BY DEF Dispatch, slots
<1>2. /\ frames \in Seq(Frames) /\ n \in Nat
      /\ \A k \in 1 .. n : frames[k] \in Frames
  BY ElementOfSeq, LenProperties DEF TableInv, CodeTypeOK
<1>3. new \in Frames
  <2>1. calls + 1 \in 1 .. MaxCalls /\ c.key \in Keys
    BY BoundsAssumption DEF Dispatch, TableInv, CodeTypeOK
  <2> QED BY <2>1 DEF Frames
<1>4. n = 0 \/ (n \in 1 .. n /\ frames # <<>> /\ CodeTop = frames[n])
  BY <1>2, EmptySeq DEF CodeTop, Last
<1>5. /\ below \in Seq(Frames) /\ Len(below) = n
      /\ \A k \in 1 .. n : below[k].at = frames[k].at
      /\ \A k \in 1 .. n : below[k].mixed = (frames[k].mixed \/ (k = n /\ TopIs("destroy")))
  <2>1. CASE TopIs("destroy")
    <3>1. n \in 1 .. n
      BY <2>1, <1>2, TopFacts DEF TopIs, TableInv
    <3>2. [frames[n] EXCEPT !.mixed = TRUE] \in Frames
      BY <3>1, <1>2 DEF Frames
    <3>3. below = [frames EXCEPT ![n] = [frames[n] EXCEPT !.mixed = TRUE]]
      BY <2>1
    <3> HIDE DEF below
    <3>4. below \in Seq(Frames) /\ Len(below) = n
      BY <3>1, <3>2, <3>3, <1>2
    <3>5. \A k \in 1 .. n :
            below[k] = IF k = n THEN [frames[n] EXCEPT !.mixed = TRUE] ELSE frames[k]
      BY <3>1, <3>3, <1>2
    <3>6. \A k \in 1 .. n : frames[k].mixed \in BOOLEAN
      BY <1>2 DEF Frames
    <3>7. \A k \in 1 .. n : /\ below[k].at = frames[k].at
                            /\ below[k].mixed = (frames[k].mixed \/ k = n)
      BY <3>1, <3>5, <3>6, <1>2 DEF Frames
    <3> QED BY <2>1, <3>4, <3>7
  <2>2. CASE ~TopIs("destroy")
    BY <2>2, <1>2 DEF Frames
  <2> QED BY <2>1, <2>2
<1> HIDE DEF below
<1>6. /\ Len(frames') = n + 1
      /\ \A k \in 1 .. n : frames'[k] = below[k]
      /\ frames'[n + 1] = new
  BY <1>1, <1>2, <1>3, <1>5, AppendProperties
<1>7. new.at = "enter" /\ new.mixed = FALSE
  OBVIOUS
<1> HIDE DEF new, n
<1>8. /\ n + 1 > 0 /\ n + 1 # 0 /\ n + 1 - 1 = n
      /\ \A k \in 1 .. n + 1 : k \in 1 .. n \/ k = n + 1
      /\ \A k \in 1 .. n : k \in 1 .. n + 1 /\ (k \in 1 .. n - 1 \/ k = n)
  BY <1>2 DEF n
<1>9. \A k \in 1 .. n : k = n => frames[k].at \in {"run", "destroy"}
                                 /\ (frames[k].at = "destroy" <=> TopIs("destroy"))
  BY <1>1, <1>4 DEF UserCode, TopIs
<1>10. WaitingBelow'
  <2> SUFFICES ASSUME NEW k \in 1 .. n
               PROVE  below[k].at = "run" \/ (below[k].at = "destroy" /\ below[k].mixed)
    BY <1>6, <1>8 DEF WaitingBelow
  <2>1. CASE k = n
    BY <2>1, <1>5, <1>9
  <2>2. CASE k \in 1 .. n - 1
    BY <2>2, <1>5 DEF ResultInv, WaitingBelow, n
  <2>3. k = n \/ k \in 1 .. n - 1
    BY <1>2
  <2> QED BY <2>1, <2>2, <2>3
<1>11. MixedIsLeaving'
  <2>1. \A k \in 1 .. n : below[k].mixed => below[k].at \in {"destroy", "back"}
    BY <1>5, <1>9 DEF ResultInv, MixedIsLeaving, n
  <2> QED BY <2>1, <1>6, <1>7, <1>8 DEF MixedIsLeaving
<1>12. SlotsAreTheTops'
  <2>1. (\A k \in 1 .. n + 1 : ~frames'[k].mixed) => call_rv = 0 /\ call_error = 0
    <3> SUFFICES ASSUME \A k \in 1 .. n + 1 : ~frames'[k].mixed
                 PROVE  call_rv = 0 /\ call_error = 0
      OBVIOUS
    <3>3. \A k \in 1 .. n : ~below[k].mixed
      BY <1>6, <1>8
    <3>1. \A k \in 1 .. n : ~frames[k].mixed /\ ~(k = n /\ TopIs("destroy"))
      BY <3>3, <1>5
    <3>2. n = 0 \/ frames[n].at \in {"enter", "run"}
      BY <3>1, <1>4, <1>9
    <3> QED BY <3>1, <3>2 DEF ResultInv, SlotsAreTheTops, n
  <2> QED BY <2>1, <1>1, <1>6, <1>7, <1>8 DEF SlotsAreTheTops
<1> QED
  BY <1>10, <1>11, <1>12 DEF ResultInv

LEMMA ResultBack == ASSUME TableInv, ResultInv, Back PROVE ResultInv'
<1> DEFINE n == Len(frames)
<1>1. /\ CodeTypeOK /\ frames # <<>> /\ frames' = Front(frames) /\ CodeTop.at = "back"
      /\ call_error # 0 => call_error' = 0 /\ call_rv' = call_rv
      /\ call_error = 0 => call_rv' = 0 /\ call_error' = call_error
  BY DEF Back, TopIs, TableInv
<1>2. /\ n \in Nat \ {0} /\ CodeTop = frames[n]
      /\ Len(frames') = n - 1 /\ \A k \in 1 .. n - 1 : frames'[k] = frames[k]
  BY <1>1, TopFacts, PopStep
<1> HIDE DEF n
<1>3. /\ \A k \in 1 .. n - 1 : k \in 1 .. n
      /\ \A k \in 1 .. n - 1 - 1 : k \in 1 .. n - 1
      /\ \A k \in 1 .. n : k \in 1 .. n - 1 \/ k = n
      /\ n - 1 > 0 => n - 1 \in 1 .. n - 1
      /\ n > 0 /\ (n - 1 = 0 \/ n - 1 > 0)
  BY <1>2
<1>4. WaitingBelow'
  BY <1>2, <1>3 DEF ResultInv, WaitingBelow, n
<1>5. call_error' = 0
  BY <1>1
<1>6. MixedIsLeaving'
  BY <1>2, <1>3, <1>5 DEF ResultInv, MixedIsLeaving, n
<1>7. SlotsAreTheTops'
  <2> SUFFICES ASSUME \A k \in 1 .. n - 1 : ~frames[k].mixed
               PROVE  /\ n - 1 = 0 \/ frames[n - 1].at = "run"
                      /\ call_rv' = 0
    <3>1. (\A k \in 1 .. Len(frames') : ~frames'[k].mixed) => \A k \in 1 .. n - 1 : ~frames[k].mixed
      BY <1>2
    <3>2. n - 1 > 0 => frames'[n - 1] = frames[n - 1]
      BY <1>2, <1>3
    <3>3. n - 1 = 0 => ~(n - 1 > 0)
      BY <1>2
    <3> QED BY <3>1, <3>2, <3>3, <1>2, <1>5 DEF SlotsAreTheTops
  <2>1. n - 1 = 0 \/ frames[n - 1].at = "run"
    BY <1>3 DEF ResultInv, WaitingBelow, n
  <2>2. CASE frames[n].mixed
    <3>1. call_error = 0
      BY <2>2, <1>3 DEF ResultInv, MixedIsLeaving, n
    <3> QED BY <3>1, <2>1, <1>1
  <2>3. CASE ~frames[n].mixed
    <3>1. \A k \in 1 .. n : ~frames[k].mixed
      BY <2>3, <1>3
    <3>2. \/ call_rv = frames[n].call /\ call_error = 0
          \/ call_error = frames[n].call /\ call_rv = 0
      BY <3>1, <1>1, <1>2, <1>3 DEF ResultInv, SlotsAreTheTops, n
    <3> QED BY <3>2, <2>1, <1>1
  <2> QED BY <2>2, <2>3
<1> QED
  BY <1>4, <1>6, <1>7 DEF ResultInv

LEMMA ResultNext == ASSUME TableInv, ResultInv, [CodeNext]_code_vars PROVE ResultInv'
<1> USE DEF slots
<1>1. ASSUME NEW s \in Subs,
             NewSub(s) \/ DefineCode(s) \/ Forget(s) \/ PassSub(s) \/ Unregister(s)
      PROVE  ResultInv'
  <2>1. UNCHANGED <<frames, call_rv, call_error>>
    BY <1>1 DEF NewSub, DefineCode, Forget, PassSub, Unregister
  <2> QED BY <2>1 DEF ResultInv, WaitingBelow, MixedIsLeaving, SlotsAreTheTops
<1>2. ASSUME NEW c \in callbacks, Dispatch(c) PROVE ResultInv'
  BY <1>2, ResultDispatch
<1> SUFFICES ASSUME frames # <<>>,
                    \/ CallCode \/ SubDies \/ Leave \/ Destroyed \/ Back
                    \/ \E R \in {{}} \cup {{s} : s \in Subs} : SubReturns(R)
                    \/ UNCHANGED code_vars
             PROVE  ResultInv'
  <2>1. (CallCode \/ SubDies \/ Leave \/ Destroyed \/ Back
           \/ \E R \in {{}} \cup {{s} : s \in Subs} : SubReturns(R)) => frames # <<>>
    BY DEF CallCode, SubDies, Leave, Destroyed, Back, SubReturns, TopIs
  <2>2. CASE UNCHANGED code_vars
    BY <2>2 DEF code_vars, ResultInv, WaitingBelow, MixedIsLeaving, SlotsAreTheTops
  <2> QED BY <2>1, <2>2, <1>1, <1>2 DEF CodeNext
<1>3. /\ CodeTop \in Frames /\ CodeTop = frames[Len(frames)]
      /\ Len(frames) > 0 /\ Len(frames) \in 1 .. Len(frames)
      /\ CodeTop.mixed => CodeTop.at \in {"destroy", "back"}
  <2>1. CodeTop \in Frames /\ CodeTop = frames[Len(frames)]
        /\ Len(frames) > 0 /\ Len(frames) \in 1 .. Len(frames)
    BY TopFacts DEF TableInv
  <2> QED BY <2>1 DEF ResultInv, MixedIsLeaving
<1>4. CASE CallCode
  <2>1. Target(CodeTop.key) \in Subs \cup {NoCode}
    BY TopStays DEF Target, Keys, TableInv, CodeTypeOK
  <2>2. CASE Target(CodeTop.key) # NoCode
    <3> DEFINE f == [CodeTop EXCEPT !.sub = Target(CodeTop.key), !.at = "run"]
    <3>1. /\ f \in Frames /\ SetTop(f) /\ f.call = CodeTop.call /\ f.mixed = CodeTop.mixed
          /\ ~CodeTop.mixed /\ CodeTop.at = "enter" /\ f.at = "run"
          /\ call_rv' = call_rv /\ call_error' = call_error
      BY <1>3, <1>4, <2>1, <2>2, TopStays DEF CallCode, TopIs, Frames
    <3> HIDE DEF f
    <3> QED BY <3>1, ResultTop
  <2>3. CASE Target(CodeTop.key) = NoCode
    <3> DEFINE f == [CodeTop EXCEPT !.at = "back"]
    <3>1. /\ f \in Frames /\ SetTop(f) /\ f.call = CodeTop.call /\ f.mixed = CodeTop.mixed
          /\ ~CodeTop.mixed /\ CodeTop.at = "enter" /\ f.at = "back"
          /\ call_rv' = call_rv /\ call_error' = f.call
      <4>1. SetTop(f) /\ call_rv' = call_rv /\ call_error' = CodeTop.call
        BY <1>4, <2>3 DEF CallCode
      <4>2. /\ f \in Frames /\ f.call = CodeTop.call /\ f.mixed = CodeTop.mixed
            /\ ~CodeTop.mixed /\ CodeTop.at = "enter" /\ f.at = "back"
        BY <1>3, <1>4, TopStays DEF CallCode, TopIs, Frames
      <4> HIDE DEF f
      <4> QED BY <4>1, <4>2
    <3> HIDE DEF f
    <3> QED BY <3>1, ResultTop
  <2> QED BY <2>2, <2>3
<1>5. CASE SubDies
  <2> DEFINE f == [CodeTop EXCEPT !.at = "leave"]
  <2>1. /\ f \in Frames /\ SetTop(f) /\ f.call = CodeTop.call /\ f.mixed = CodeTop.mixed
        /\ ~CodeTop.mixed /\ CodeTop.at = "run" /\ f.at = "leave"
        /\ call_rv' = call_rv /\ call_error' = f.call
    BY <1>3, <1>5, TopStays DEF SubDies, TopIs, Frames
  <2> HIDE DEF f
  <2> QED BY <2>1, ResultTop
<1>6. ASSUME NEW R \in {{}} \cup {{s} : s \in Subs}, SubReturns(R) PROVE ResultInv'
  <2> DEFINE f == [CodeTop EXCEPT !.at = "leave"]
  <2>1. /\ f \in Frames /\ SetTop(f) /\ f.call = CodeTop.call /\ f.mixed = CodeTop.mixed
        /\ ~CodeTop.mixed /\ CodeTop.at = "run" /\ f.at = "leave"
        /\ call_rv' = f.call /\ call_error' = call_error
    <3>1. SetTop(f) /\ call_rv' = CodeTop.call /\ call_error' = call_error /\ CodeTop.at = "run"
      BY <1>6 DEF SubReturns, TopIs
    <3>2. /\ f \in Frames /\ f.call = CodeTop.call /\ f.mixed = CodeTop.mixed
          /\ ~CodeTop.mixed /\ f.at = "leave"
      BY <1>3, <3>1, TopStays DEF Frames
    <3> HIDE DEF f
    <3> QED BY <3>1, <3>2
  <2> HIDE DEF f
  <2> QED BY <2>1, ResultTop
<1>7. CASE Leave
  <2>1. PICK at \in {"back", "destroy"} : SetTop([CodeTop EXCEPT !.sub = NoCode, !.at = at])
    BY <1>7 DEF Leave
  <2> DEFINE f == [CodeTop EXCEPT !.sub = NoCode, !.at = at]
  <2>2. /\ f \in Frames /\ SetTop(f) /\ f.call = CodeTop.call /\ f.mixed = CodeTop.mixed
        /\ ~CodeTop.mixed /\ CodeTop.at = "leave" /\ f.at = at
        /\ call_rv' = call_rv /\ call_error' = call_error
    <3>1. SetTop(f) /\ call_rv' = call_rv /\ call_error' = call_error /\ CodeTop.at = "leave"
      BY <1>7, <2>1 DEF Leave, TopIs
    <3>2. /\ f \in Frames /\ f.call = CodeTop.call /\ f.mixed = CodeTop.mixed
          /\ ~CodeTop.mixed /\ f.at = at
      <4>1. NoCode \in Subs \cup {NoCode} /\ at \in {"run", "back", "destroy"}
        OBVIOUS
      <4>2. f \in Frames
        BY <4>1, TopStays
      <4>3. CodeTop \in Frames /\ ~CodeTop.mixed
        BY <1>3, <3>1
      <4> QED BY <4>2, <4>3 DEF Frames
    <3> HIDE DEF f
    <3> QED BY <3>1, <3>2
  <2> HIDE DEF f
  <2> QED BY <2>2, ResultTop
<1>8. CASE Destroyed
  <2> DEFINE f == [CodeTop EXCEPT !.at = "back"]
  <2>1. /\ f \in Frames /\ SetTop(f) /\ f.call = CodeTop.call /\ f.mixed = CodeTop.mixed
        /\ CodeTop.at = "destroy" /\ f.at = "back"
        /\ call_rv' = call_rv /\ call_error' = call_error
    BY <1>3, <1>8, TopStays DEF Destroyed, TopIs, Frames
  <2> HIDE DEF f
  <2> QED BY <2>1, ResultTop
<1>9. CASE UNCHANGED code_vars
  BY <1>9 DEF code_vars, ResultInv, WaitingBelow, MixedIsLeaving, SlotsAreTheTops
<1> QED
  BY <1>4, <1>5, <1>6, <1>7, <1>8, <1>9, ResultBack

-----------------------------------------------------------------------------
(* The theorems.                                                           *)

\* The subs, the table, the callbacks and the stack of calls are what
\* CodeTypeOK says, in every state that the glue code can reach.
THEOREM TypeCorrect == CodeSpec => []CodeTypeOK
<1>1. CodeInit => TableInv
  BY CodeInitInv
<1>2. TableInv /\ [CodeNext]_code_vars => TableInv'
  BY TableNextInv
<1>3. TableInv => CodeTypeOK
  BY DEF TableInv
<1> QED
  BY <1>1, <1>2, <1>3, PTL DEF CodeSpec

\* A callback that was made for a sub by its address reaches that sub until it
\* is unregistered, and as long as the sub exists it reaches no other
\* (_code_reg(), unregister(), _call_code()).
THEOREM CallbacksReachTheirSubs == CodeSpec => []CallbackFindsItsSub
<1>1. CodeInit => TableInv
  BY CodeInitInv
<1>2. TableInv /\ [CodeNext]_code_vars => TableInv'
  BY TableNextInv
<1>3. TableInv => CallbackFindsItsSub
  <2> SUFFICES ASSUME TableInv, NEW c \in callbacks, c.key # Name
               PROVE  /\ c.sub \notin unregistered => addr[c.sub] = c.key /\ code_table[c.key] = c.sub
                      /\ addr[c.sub] # NoCode => code_table[c.key] \in {c.sub, NoCode}
    BY DEF CallbackFindsItsSub
  <2>1. c.sub \in Subs /\ c.key \in Addrs
    BY DEF TableInv, CodeTypeOK, Keys
  <2>2. c.sub \notin unregistered => addr[c.sub] = c.key /\ code_table[c.key] = c.sub
    BY DEF TableInv, RegisteredIsInTable
  <2>3. ASSUME addr[c.sub] # NoCode, code_table[c.key] # NoCode PROVE code_table[c.key] = c.sub
    <3>1. addr[c.sub] = c.key
      BY <2>3 DEF TableInv, CallbackKeepsAddress
    <3>2. code_table[c.key] \in Subs /\ addr[code_table[c.key]] = c.key
      BY <2>1, <2>3 DEF TableInv, CodeTypeOK, KeysAreAddresses
    <3> QED BY <2>1, <2>3, <3>1, <3>2 DEF TableInv, CodeTypeOK
  <2> QED BY <2>2, <2>3
<1> QED
  BY <1>1, <1>2, <1>3, PTL DEF CodeSpec

\* However calls nest, JavaScript gets the result or the error of the call it
\* made, unless a destructor has called back while that call was being left
\* (Perl._call_code_rv and Perl._call_code_error).
THEOREM ResultsAreTheirCalls == CodeSpec => []OnlyADestructorMixesResults
<1> DEFINE IInv == TableInv /\ ResultInv
<1>1. CodeInit => IInv
  BY CodeInitInv, ResultInit
<1>2. IInv /\ [CodeNext]_code_vars => IInv'
  BY TableNextInv, ResultNext
<1>3. IInv => OnlyADestructorMixesResults
  <2> SUFFICES ASSUME TableInv, ResultInv, TopIs("back"),
                      \A k \in DOMAIN frames : ~frames[k].mixed
               PROVE  IF call_error # 0 THEN call_error = CodeTop.call
                                        ELSE call_rv = CodeTop.call
    BY DEF OnlyADestructorMixesResults
  <2>1. /\ Len(frames) > 0 /\ CodeTop = frames[Len(frames)] /\ CodeTop.at = "back"
        /\ DOMAIN frames = 1 .. Len(frames)
    BY TopFacts, LenProperties DEF TopIs, TableInv, CodeTypeOK
  <2>2. \/ call_rv = CodeTop.call /\ call_error = 0
        \/ call_error = CodeTop.call /\ call_rv = 0
    BY <2>1 DEF ResultInv, SlotsAreTheTops
  <2>3. CodeTop.call # 0
    <3>1. CodeTop.call \in 1 .. calls /\ calls \in Nat
      BY TopStays DEF TopIs
    <3> QED BY <3>1
  <2> QED BY <2>2, <2>3
<1> QED
  BY <1>1, <1>2, <1>3, PTL DEF CodeSpec

=============================================================================
