------------------------------ MODULE Locks_proofs ------------------------------
(***************************************************************************)
(* Proofs about deferred signals and the two locks.  Signals: for any      *)
(* number of them, any nesting of handlers and assignments, and any limit  *)
(* on pending signals.  The readers/writer lock of thread.h excludes and   *)
(* never forgets a waiter, for every finite set of threads.  The lock of a *)
(* shared variable, for every set of threads and every depth of nesting,   *)
(* excludes, counts, forgets no waiter, and is the monitor that            *)
(* threads::shared promises.                                               *)
(***************************************************************************)
EXTENDS MCLocks, SequenceTheorems, FiniteSetTheorems, TLAPS

-----------------------------------------------------------------------------
(* Deferred signals.                                                       *)

\* A frame that has frames above it is waiting for the Perl code it called.
OnlyTheTopIsInC ==
  \A k \in 1 .. Len(frames) - 1 :
    \/ frames[k].fn = "despatch" /\ frames[k].at = "handler"
    \/ frames[k].fn = "setsig" /\ frames[k].at = "change"

\* A loop between its test and its call has something to give, and calls the
\* handler with the signal blocked.
CallsWhatIsRecorded ==
  status = "running" => \A k \in 1 .. Len(frames) :
    frames[k].fn = "despatch" /\ frames[k].at \in {"block", "call"}
      => /\ Recorded(frames[k].sig)
         /\ frames[k].at = "call" => frames[k].sig \in blocked

\* A signal whose handler runs is not recorded: it is blocked, and what was
\* recorded went to the handler.
HandledIsNotRecorded ==
  \A s \in Sigs, k \in 1 .. Len(frames) :
    HandlerOf(frames[k], s) => s \in blocked /\ ~Recorded(s)

\* The mask a magic_setsig() restores keeps the handlers below it blocked.
SavedMaskCovers ==
  \A k \in 1 .. Len(frames) : frames[k].fn = "setsig" =>
    \A s \in Sigs, j \in 1 .. k - 1 : HandlerOf(frames[j], s) => s \in frames[k].save

HandlersDistinct ==
  \A s \in Sigs, j, k \in 1 .. Len(frames) :
    HandlerOf(frames[j], s) /\ HandlerOf(frames[k], s) => j = k

StackInv ==
  /\ OnlyTheTopIsInC
  /\ CallsWhatIsRecorded
  /\ HandledIsNotRecorded
  /\ SavedMaskCovers
  /\ HandlersDistinct

-----------------------------------------------------------------------------
(* The stack operators, frame by frame.                                    *)

Frames == Loops \cup Setsigs

LEMMA TopType ==
  ASSUME SigTypeOK, frames # <<>>
  PROVE  /\ Len(frames) \in Nat \ {0}
         /\ Top \in Frames
         /\ \A k \in 1 .. Len(frames) : frames[k] \in Frames
         /\ Top.fn = "despatch" => Top \in Loops
         /\ Top.fn = "setsig" => Top \in Setsigs
<1>1. frames \in Seq(Frames) /\ Len(frames) \in Nat \ {0}
  BY EmptySeq, LenProperties DEF SigTypeOK, Frames
<1>2. \A k \in 1 .. Len(frames) : frames[k] \in Frames
  BY <1>1, ElementOfSeq
<1>3. Top \in Frames
  BY <1>1, <1>2 DEF Top
<1> QED
  BY <1>1, <1>2, <1>3 DEF Frames, Loops, Setsigs

\* The first n elements of a sequence.
LEMMA PrefixProperties ==
  ASSUME NEW S, NEW seq, NEW n \in Nat, \A i \in 1 .. n : seq[i] \in S
  PROVE  /\ SubSeq(seq, 1, n) \in Seq(S)
         /\ Len(SubSeq(seq, 1, n)) = n
         /\ \A i \in 1 .. n : SubSeq(seq, 1, n)[i] = seq[i]
<1>1. /\ SubSeq(seq, 1, n) \in Seq(S)
      /\ Len(SubSeq(seq, 1, n)) = IF 1 <= n THEN n - 1 + 1 ELSE 0
      /\ \A i \in 1 .. n - 1 + 1 : SubSeq(seq, 1, n)[i] = seq[1 + i - 1]
  BY SubSeqProperties
<1>2. n - 1 + 1 = n /\ (1 <= n \/ n = 0)
  OBVIOUS
<1>3. \A i \in 1 .. n : 1 + i - 1 = i
  OBVIOUS
<1> QED
  BY <1>1, <1>2, <1>3

\* Two elements at the end of a sequence.
LEMMA AppendTwice ==
  ASSUME NEW S, NEW seq \in Seq(S), NEW a \in S, NEW b \in S
  PROVE  /\ Len(Append(seq, a) \o <<b>>) = Len(seq) + 2
         /\ (Append(seq, a) \o <<b>>)[Len(seq) + 1] = a
         /\ (Append(seq, a) \o <<b>>)[Len(seq) + 2] = b
         /\ \A k \in 1 .. Len(seq) : (Append(seq, a) \o <<b>>)[k] = seq[k]
  OBVIOUS

LEMMA PopStep ==
  ASSUME SigTypeOK, frames # <<>>, Pop
  PROVE  /\ frames' \in Seq(Frames)
         /\ Len(frames') = Len(frames) - 1
         /\ \A k \in 1 .. Len(frames) - 1 : frames'[k] = frames[k]
<1>1. frames \in Seq(Frames) /\ Len(frames) \in Nat \ {0}
  BY TopType DEF SigTypeOK, Frames
<1> DEFINE n == Len(frames) - 1
<1>2. n \in Nat /\ \A k \in 1 .. n : frames[k] \in Frames
  BY <1>1, ElementOfSeq
<1>3. frames' = SubSeq(frames, 1, n)
  BY DEF Pop, Front
<1> HIDE DEF n
<1>4. /\ frames' \in Seq(Frames)
      /\ Len(frames') = n
      /\ \A k \in 1 .. n : frames'[k] = frames[k]
  BY <1>2, <1>3, PrefixProperties
<1> QED
  BY <1>4 DEF n

LEMMA SetTopStep ==
  ASSUME SigTypeOK, frames # <<>>, NEW f \in Frames, SetTop(f)
  PROVE  /\ frames' \in Seq(Frames)
         /\ Len(frames') = Len(frames)
         /\ frames'[Len(frames)] = f
         /\ \A k \in 1 .. Len(frames) - 1 : frames'[k] = frames[k]
<1>1. frames \in Seq(Frames) /\ Len(frames) \in Nat \ {0}
  BY TopType DEF SigTypeOK, Frames
<1> QED
  BY <1>1 DEF SetTop

\* The frame on top becomes f, and g comes to lie on it.
LEMMA ReplacePushStep ==
  ASSUME SigTypeOK, frames # <<>>, NEW f \in Frames, NEW g \in Frames,
         frames' = Append(Front(frames), f) \o <<g>>
  PROVE  /\ Len(frames') = Len(frames) + 1
         /\ frames'[Len(frames) + 1] = g /\ frames'[Len(frames)] = f
         /\ \A k \in 1 .. Len(frames) - 1 : frames'[k] = frames[k]
<1> DEFINE n == Len(frames) - 1
           front == SubSeq(frames, 1, n)
<1>1. n \in Nat /\ \A k \in 1 .. n : frames[k] \in Frames
  BY TopType
<1>2. n + 1 = Len(frames) /\ n + 2 = Len(frames) + 1
  BY TopType
<1>3. frames' = Append(front, f) \o <<g>>
  BY DEF Front
<1> HIDE DEF n
<1>4. front \in Seq(Frames) /\ Len(front) = n /\ \A k \in 1 .. n : front[k] = frames[k]
  BY <1>1, PrefixProperties
<1> HIDE DEF front
<1>5. /\ Len(frames') = Len(front) + 2
      /\ frames'[Len(front) + 1] = f /\ frames'[Len(front) + 2] = g
      /\ \A k \in 1 .. Len(front) : frames'[k] = front[k]
  BY <1>3, <1>4, AppendTwice
<1>6. /\ Len(frames') = n + 2 /\ frames'[n + 1] = f /\ frames'[n + 2] = g
      /\ \A k \in 1 .. n : frames'[k] = frames[k]
  BY <1>4, <1>5
<1> QED
  BY <1>2, <1>6 DEF n

\* The loop goes on, or ends.
LEMMA NextSigStep ==
  ASSUME SigTypeOK, frames # <<>>, Top.fn = "despatch", NextSig
  PROVE  \/ Pop /\ ~(Top.sig < LastSig)
         \/ /\ Top.sig < LastSig
            /\ [Top EXCEPT !.sig = @ + 1, !.at = "test"] \in Loops
            /\ SetTop([Top EXCEPT !.sig = @ + 1, !.at = "test"])
<1>1. Top \in Loops
  BY TopType
<1>2. Top.sig < LastSig => [Top EXCEPT !.sig = @ + 1, !.at = "test"] \in Loops
  <2> SUFFICES ASSUME Top.sig < LastSig
               PROVE  [Top EXCEPT !.sig = @ + 1, !.at = "test"] \in Loops
    OBVIOUS
  <2>1. Top.sig + 1 \in Sigs
    BY <1>1, SignalsAssumption DEF Loops, Sigs
  <2> QED
    BY <1>1, <2>1 DEF Loops
<1> QED
  BY <1>2 DEF NextSig

-----------------------------------------------------------------------------
(* Types.                                                                  *)

LEMMA NextSigType ==
  ASSUME SigTypeOK, frames # <<>>, Top.fn = "despatch", NextSig
  PROVE  frames' \in Seq(Frames)
<1>1. CASE Pop
  BY <1>1, PopStep
<1>2. CASE /\ [Top EXCEPT !.sig = @ + 1, !.at = "test"] \in Loops
           /\ SetTop([Top EXCEPT !.sig = @ + 1, !.at = "test"])
  BY <1>2, SetTopStep DEF Frames
<1> QED
  BY <1>1, <1>2, NextSigStep

LEMMA UnblockedType ==
  ASSUME SigTypeOK, NEW f PROVE Unblocked(f) \subseteq Sigs
  BY DEF SigTypeOK, Unblocked

LEMMA InitTypeOK == SigInit => SigTypeOK
<1> SUFFICES ASSUME SigInit PROVE SigTypeOK
  OBVIOUS
<1>1. frames \in Seq(Loops \cup Setsigs)
  BY EmptySeq DEF SigInit
<1> QED
  BY <1>1 DEF SigInit, SigTypeOK, Settings

LEMMA NextTypeOK == SigTypeOK /\ [SigNext]_sig_vars => SigTypeOK'
<1> SUFFICES ASSUME SigTypeOK, [SigNext]_sig_vars PROVE SigTypeOK'
  OBVIOUS
<1> USE DEF SigTypeOK
<1>0. frames \in Seq(Frames)
  BY DEF Frames
<1>1. ASSUME NEW s \in Sigs, Kill(s) PROVE SigTypeOK'
  BY <1>1 DEF Kill, tables
<1>2. ASSUME NEW s \in Sigs, Deliver(s) PROVE SigTypeOK'
  <2>1. /\ psig_pend' \in [Sigs -> Nat]
        /\ sig_pending' \in Nat
        /\ dying' \in BOOLEAN
        /\ blocked' \subseteq Sigs
    <3>1. CASE Catch(s)
      <4>1. dying' \in BOOLEAN /\ blocked' \subseteq Sigs
        BY <3>1 DEF Catch
      <4> QED
        BY <3>1, <4>1 DEF Catch
    <3>2. CASE UNCHANGED <<psig_pend, sig_pending, dying, blocked>>
      BY <3>2
    <3> QED
      BY <1>2, <3>1, <3>2 DEF Deliver
  <2>2. status' \in {"running", "killed", "died", "exit(sig)", "destructed"}
    BY <1>2 DEF Deliver
  <2> QED
    BY <1>2, <2>1, <2>2 DEF Deliver
<1>3. CASE AsyncCheck
  <2>1. NewLoop \in Frames
    BY SignalsAssumption DEF NewLoop, Frames, Loops, Sigs
  <2>2. frames' \in Seq(Frames)
    BY <1>0, <1>3, <2>1, AppendProperties DEF AsyncCheck
  <2> QED
    BY <1>3, <2>2 DEF AsyncCheck, kernel, Frames
<1>4. CASE DespatchTest
  <2>1. frames # <<>> /\ Top.fn = "despatch"
    BY <1>4 DEF DespatchTest, InC, TopIs
  <2>2. [Top EXCEPT !.at = "block"] \in Frames
    BY <2>1, TopType DEF Frames, Loops
  <2>3. frames' \in Seq(Frames)
    BY <1>4, <2>1, <2>2, NextSigType, SetTopStep DEF DespatchTest
  <2> QED
    BY <1>4, <2>3 DEF DespatchTest, kernel, tables, Frames
<1>5. CASE DespatchBlock
  <2>1. frames # <<>> /\ Top.fn = "despatch"
    BY <1>5 DEF DespatchBlock, InC, TopIs
  <2>2. Top \in Loops /\ Top.sig \in Sigs
    BY <2>1, TopType DEF Loops
  <2>4. \A b \in BOOLEAN :
          [Top EXCEPT !.at = "call", !.was_blocked = b] \in Frames
    BY <2>2 DEF Frames, Loops
  <2>6. (Top.sig \in blocked) \in BOOLEAN
    OBVIOUS
  <2>5. [Top EXCEPT !.at = "call", !.was_blocked = Top.sig \in blocked] \in Frames
    BY <2>4, <2>6, Zenon
  <2>3. frames' \in Seq(Frames)
    BY <1>5, <2>1, <2>5, SetTopStep DEF DespatchBlock
  <2> QED
    BY <1>5, <2>2, <2>3 DEF DespatchBlock, tables, Frames
<1>6. CASE DespatchCall
  <2>1. frames # <<>> /\ Top.fn = "despatch"
    BY <1>6 DEF DespatchCall, InC, TopIs
  <2>2. Top.sig \in Sigs /\ [Top EXCEPT !.at = "handler"] \in Frames
    BY <2>1, TopType DEF Frames, Loops
  <2>3. frames' \in Seq(Frames)
    BY <1>0, <1>6, <2>1, <2>2, NextSigType, SetTopStep DEF DespatchCall
  <2>4. /\ blocked' \subseteq Sigs
        /\ status' \in {"running", "killed", "died", "exit(sig)", "destructed"}
    BY <1>6, UnblockedType DEF DespatchCall
  <2> QED
    BY <1>6, <2>2, <2>3, <2>4 DEF DespatchCall, Frames
<1>7. CASE HandlerReturn
  <2>1. frames # <<>> /\ Top.fn = "despatch"
    BY <1>7 DEF HandlerReturn, InPerl, TopIs
  <2>2. frames' \in Seq(Frames)
    BY <1>7, <2>1, NextSigType DEF HandlerReturn
  <2> QED
    BY <1>7, <2>2, UnblockedType DEF HandlerReturn, tables, Frames
<1>8. CASE Die \/ Eval \/ DieUncaught
  BY <1>8 DEF Die, Eval, DieUncaught, kernel, tables
<1>9. CASE Unwind
  <2>1. frames # <<>>
    BY <1>9 DEF Unwind
  <2>2. frames' \in Seq(Frames)
    BY <1>9, <2>1, PopStep DEF Unwind
  <2>3. Top.fn = "setsig" => Top.save \subseteq Sigs
    BY <2>1, TopType DEF Setsigs
  <2>4. blocked' \subseteq Sigs
    BY <1>9, <2>3, UnblockedType DEF Unwind
  <2> QED
    BY <1>9, <2>2, <2>4 DEF Unwind, tables, Frames
<1>10. ASSUME NEW s \in Sigs, NEW new \in Settings \cup {"NULL"}, SetSigEnter(s, new)
       PROVE  SigTypeOK'
  <2> DEFINE f == [fn |-> "setsig", sig |-> s, to |-> new,
                   save |-> blocked, at |-> "check"]
  <2>1. f \in Frames
    BY DEF Frames, Setsigs
  <2>2. frames' \in Seq(Frames)
    BY <1>0, <1>10, <2>1, AppendProperties DEF SetSigEnter
  <2> QED
    BY <1>10, <2>2 DEF SetSigEnter, tables, Frames
<1>11. CASE SetSigCheck
  <2>1. frames # <<>> /\ Top.fn = "setsig"
    BY <1>11 DEF SetSigCheck, InC, TopIs
  <2>2. [Top EXCEPT !.at = "change"] \in Frames
    BY <2>1, TopType DEF Frames, Setsigs
  <2>5. NewLoop \in Frames
    BY SignalsAssumption DEF NewLoop, Frames, Loops, Sigs
  <2>3. Front(frames) \in Seq(Frames)
    BY <1>0, <2>1, TopType DEF Front
  <2>6. Append(Front(frames), [Top EXCEPT !.at = "change"]) \in Seq(Frames)
    BY <2>2, <2>3, AppendProperties
  <2>7. <<NewLoop>> \in Seq(Frames)
    BY <2>5
  <2>8. Append(Front(frames), [Top EXCEPT !.at = "change"]) \o <<NewLoop>>
          \in Seq(Frames)
    BY <2>6, <2>7, ConcatProperties
  <2>4. frames' \in Seq(Frames)
    BY <1>11, <2>1, <2>2, <2>8, SetTopStep DEF SetSigCheck
  <2> QED
    BY <1>11, <2>4 DEF SetSigCheck, kernel, Frames
<1>12. CASE SetSigChange
  <2>1. frames # <<>> /\ Top.fn = "setsig"
    BY <1>12 DEF SetSigChange, InC, TopIs
  <2>2. Top.sig \in Sigs /\ Top.to \in Settings \cup {"NULL"} /\ Top.save \subseteq Sigs
    BY <2>1, TopType DEF Setsigs
  <2>3. frames' \in Seq(Frames)
    BY <1>12, <2>1, PopStep DEF SetSigChange
  <2>4. Disposition(Top.to) \in {"csighandler", "SIG_IGN", "SIG_DFL"}
    BY DEF Disposition
  <2> QED
    BY <1>12, <2>2, <2>3, <2>4 DEF SetSigChange, Frames
<1>13. CASE Fork \/ Destruct
  BY <1>13 DEF Fork, Destruct, kernel
<1>14. CASE UNCHANGED sig_vars
  BY <1>14 DEF sig_vars
<1> QED
  BY <1>1, <1>2, <1>3, <1>4, <1>5, <1>6, <1>7, <1>8, <1>9, <1>10, <1>11,
     <1>12, <1>13, <1>14
  DEF SigNext, Despatch, SetSig

\* Every frame keeps its shape, and no loop runs past the last signal.
THEOREM TypeCorrect == SigSpec => []SigTypeOK
  BY InitTypeOK, NextTypeOK, PTL DEF SigSpec

-----------------------------------------------------------------------------
(* What a change of the stack does to the invariant.                       *)

\* The frame on top goes away, its handler, if it was in one, with it.
LEMMA PopInv ==
  ASSUME SigTypeOK, StackInv, frames # <<>>, Pop,
         \A s \in Sigs : Recorded(s)' => Recorded(s),
         \A s \in Sigs, k \in 1 .. Len(frames) - 1 :
           HandlerOf(frames[k], s) => s \in blocked'
  PROVE  StackInv'
<1> DEFINE n == Len(frames) - 1
<1>1. n \in Nat /\ Len(frames) = n + 1 /\ Len(frames') = n
      /\ \A k \in 1 .. n : frames'[k] = frames[k] /\ k \in 1 .. Len(frames)
  BY TopType, PopStep
<1> HIDE DEF n
<1>2. OnlyTheTopIsInC'
  BY <1>1 DEF StackInv, OnlyTheTopIsInC
<1>3. CallsWhatIsRecorded'
  BY <1>1 DEF StackInv, OnlyTheTopIsInC, CallsWhatIsRecorded
<1>4. HandledIsNotRecorded'
  BY <1>1 DEF StackInv, HandledIsNotRecorded, HandlerOf, n
<1>5. SavedMaskCovers'
  BY <1>1 DEF StackInv, SavedMaskCovers, HandlerOf
<1>6. HandlersDistinct'
  BY <1>1 DEF StackInv, HandlersDistinct, HandlerOf
<1> QED
  BY <1>2, <1>3, <1>4, <1>5, <1>6 DEF StackInv

\* The frame on top becomes f, which has not called a handler.
LEMMA SetTopInv ==
  ASSUME SigTypeOK, StackInv, frames # <<>>, NEW f \in Frames, SetTop(f),
         \A s \in Sigs : ~HandlerOf(f, s),
         f.fn = "despatch" /\ f.at \in {"block", "call"} => Recorded(f.sig)',
         f.fn = "despatch" /\ f.at = "call" => f.sig \in blocked',
         f.fn = "setsig" => Top.fn = "setsig" /\ f.save = Top.save,
         \A s \in Sigs : Recorded(s)' => Recorded(s),
         \A s \in Sigs, k \in 1 .. Len(frames) - 1 :
           HandlerOf(frames[k], s) => s \in blocked'
  PROVE  StackInv'
<1> DEFINE n == Len(frames)
<1>1. n \in Nat \ {0} /\ Len(frames') = n
      /\ frames'[n] = f /\ Top = frames[n]
      /\ \A k \in 1 .. n - 1 : frames'[k] = frames[k]
  BY TopType, SetTopStep DEF Top
<1>2. OnlyTheTopIsInC'
  BY <1>1 DEF StackInv, OnlyTheTopIsInC
<1>3. CallsWhatIsRecorded'
  BY <1>1 DEF StackInv, OnlyTheTopIsInC, CallsWhatIsRecorded
<1>4. HandledIsNotRecorded'
  BY <1>1 DEF StackInv, HandledIsNotRecorded, HandlerOf
<1>5. SavedMaskCovers'
  BY <1>1 DEF StackInv, SavedMaskCovers, HandlerOf
<1>6. HandlersDistinct'
  BY <1>1 DEF StackInv, HandlersDistinct, HandlerOf
<1> QED
  BY <1>2, <1>3, <1>4, <1>5, <1>6 DEF StackInv

\* f comes to lie on a frame that has called Perl code, or on none.
LEMMA PushInv ==
  ASSUME SigTypeOK, StackInv, NEW f \in Frames, frames' = Append(frames, f),
         frames # <<>> => \/ Top.fn = "despatch" /\ Top.at = "handler"
                          \/ Top.fn = "setsig" /\ Top.at = "change",
         \A s \in Sigs : ~HandlerOf(f, s),
         ~(f.fn = "despatch" /\ f.at \in {"block", "call"}),
         f.fn = "setsig" => f.save = blocked,
         psig_pend' = psig_pend, blocked \subseteq blocked'
  PROVE  StackInv'
<1> DEFINE n == Len(frames)
<1>1. n \in Nat /\ Len(frames') = n + 1 /\ frames'[n + 1] = f
      /\ \A k \in 1 .. n : frames'[k] = frames[k]
  BY AppendProperties, LenProperties DEF SigTypeOK, Frames
<1>2. n # 0 => \/ frames[n].fn = "despatch" /\ frames[n].at = "handler"
               \/ frames[n].fn = "setsig" /\ frames[n].at = "change"
  BY EmptySeq DEF SigTypeOK, Top
<1> HIDE DEF n
<1>3. OnlyTheTopIsInC'
  <2> SUFFICES ASSUME NEW k \in 1 .. n
               PROVE  \/ frames[k].fn = "despatch" /\ frames[k].at = "handler"
                      \/ frames[k].fn = "setsig" /\ frames[k].at = "change"
    BY <1>1 DEF OnlyTheTopIsInC
  <2>1. k = n \/ k \in 1 .. n - 1
    BY <1>1
  <2> QED
    BY <1>1, <1>2, <2>1 DEF StackInv, OnlyTheTopIsInC, n
<1>4. CallsWhatIsRecorded'
  <2>1. ASSUME NEW k \in 1 .. n + 1
        PROVE  ~(frames'[k].fn = "despatch" /\ frames'[k].at \in {"block", "call"})
    <3>1. k = n + 1 \/ k \in 1 .. n
      BY <1>1
    <3>2. k \in 1 .. n => frames'[k].fn = "setsig" \/ frames'[k].at = "handler"
      BY <1>1, <1>3 DEF OnlyTheTopIsInC
    <3>3. CASE k = n + 1
      <4>1. frames'[k] = f
        BY <1>1, <3>3
      <4> QED BY <4>1
    <3>4. CASE k \in 1 .. n
      BY <3>2, <3>4
    <3> QED BY <3>1, <3>3, <3>4
  <2> QED BY <1>1, <2>1 DEF CallsWhatIsRecorded
<1>5. HandledIsNotRecorded'
  BY <1>1 DEF StackInv, HandledIsNotRecorded, HandlerOf, Recorded, n
<1>6. SavedMaskCovers'
  BY <1>1 DEF StackInv, SavedMaskCovers, HandledIsNotRecorded, HandlerOf, n
<1>7. HandlersDistinct'
  BY <1>1 DEF StackInv, HandlersDistinct, HandlerOf, n
<1> QED
  BY <1>3, <1>4, <1>5, <1>6, <1>7 DEF StackInv

-----------------------------------------------------------------------------
(* The steps.                                                              *)

LEMMA NextSigInv ==
  ASSUME SigTypeOK, StackInv, frames # <<>>, Top.fn = "despatch", NextSig,
         \A s \in Sigs : Recorded(s)' => Recorded(s),
         \A s \in Sigs, k \in 1 .. Len(frames) - 1 :
           HandlerOf(frames[k], s) => s \in blocked'
  PROVE  StackInv'
<1> DEFINE f == [Top EXCEPT !.sig = @ + 1, !.at = "test"]
<1>1. CASE Pop
  BY <1>1, PopInv
<1>2. CASE f \in Loops /\ SetTop(f)
  <2>1. f \in Frames /\ f.at = "test" /\ f.fn = "despatch"
    BY <1>2, TopType DEF Frames, Loops
  <2> HIDE DEF f
  <2> QED
    BY <1>2, <2>1, SetTopInv DEF HandlerOf
<1> QED
  BY <1>1, <1>2, NextSigStep

\* Leaving a loop that has blocked its signal does not uncover a handler
\* further down: it would be a handler of the same signal.
LEMMA UnblockedCovers ==
  ASSUME SigTypeOK, StackInv, frames # <<>>, Top.fn = "despatch", status = "running",
         Top.at \in {"call", "handler"}
  PROVE  \A s \in Sigs, k \in 1 .. Len(frames) - 1 :
           HandlerOf(frames[k], s) => s \in Unblocked(Top)
<1> SUFFICES ASSUME NEW s \in Sigs, NEW k \in 1 .. Len(frames) - 1,
                    HandlerOf(frames[k], s)
             PROVE  s \in Unblocked(Top)
  OBVIOUS
<1>1. Len(frames) \in Nat \ {0} /\ Top = frames[Len(frames)] /\ Top.sig \in Sigs
      /\ k \in 1 .. Len(frames) /\ k # Len(frames)
  BY TopType DEF Top, Loops
<1>2. s \in blocked /\ ~Recorded(s)
  BY <1>1 DEF StackInv, HandledIsNotRecorded
<1>3. s # Top.sig
  <2>1. CASE Top.at = "handler"
    BY <1>1, <2>1 DEF StackInv, HandlersDistinct, HandlerOf
  <2>2. CASE Top.at = "call"
    BY <1>1, <1>2, <2>2 DEF StackInv, CallsWhatIsRecorded
  <2> QED
    BY <2>1, <2>2
<1> QED
  BY <1>2, <1>3 DEF Unblocked

\* The loop calls the handler of the signal it has found.
LEMMA CallHandlerInv ==
  ASSUME SigTypeOK, StackInv, InC("despatch", "call"),
         psig_pend' = [psig_pend EXCEPT ![Top.sig] = 0], UNCHANGED blocked,
         SetTop([Top EXCEPT !.at = "handler"])
  PROVE  StackInv'
<1> DEFINE n == Len(frames)
           f == [Top EXCEPT !.at = "handler"]
<1>1. frames # <<>> /\ Top.fn = "despatch" /\ Top.at = "call" /\ status = "running"
  BY DEF InC, TopIs
<1>2. Top \in Loops /\ f \in Frames /\ f.sig = Top.sig /\ f.sig \in Sigs
      /\ f.at = "handler" /\ f.fn = "despatch"
  BY <1>1, TopType DEF Loops, Frames
<1>3. n \in Nat \ {0} /\ Len(frames') = n /\ frames'[n] = f /\ Top = frames[n]
      /\ \A k \in 1 .. n - 1 : frames'[k] = frames[k] /\ k \in 1 .. n
  BY <1>1, <1>2, TopType, SetTopStep DEF Top
<1>4. Recorded(Top.sig) /\ Top.sig \in blocked
  BY <1>1, <1>3 DEF StackInv, CallsWhatIsRecorded
<1>5. \A s \in Sigs : Recorded(s)' <=> Recorded(s) /\ s # Top.sig
  BY <1>2 DEF Recorded, SigTypeOK
<1>6. \A s \in Sigs, k \in 1 .. n - 1 :
        HandlerOf(frames[k], s) => s \in blocked /\ ~Recorded(s) /\ s # Top.sig
  BY <1>3, <1>4 DEF StackInv, HandledIsNotRecorded
<1> HIDE DEF f
<1>7. OnlyTheTopIsInC'
  BY <1>3 DEF StackInv, OnlyTheTopIsInC
<1>8. CallsWhatIsRecorded'
  BY <1>2, <1>3, <1>7 DEF CallsWhatIsRecorded, OnlyTheTopIsInC
<1>9. HandledIsNotRecorded'
  <2> SUFFICES ASSUME NEW s \in Sigs, NEW k \in 1 .. n, HandlerOf(frames'[k], s)
               PROVE  s \in blocked' /\ ~Recorded(s)'
    BY <1>3 DEF HandledIsNotRecorded, HandlerOf
  <2>1. CASE k = n
    BY <1>2, <1>3, <1>4, <1>5, <2>1 DEF HandlerOf
  <2>2. CASE k \in 1 .. n - 1
    BY <1>3, <1>5, <1>6, <2>2
  <2> QED
    BY <1>3, <2>1, <2>2
<1>10. SavedMaskCovers'
  BY <1>2, <1>3 DEF StackInv, SavedMaskCovers, HandlerOf
<1>11. HandlersDistinct'
  BY <1>2, <1>3, <1>6 DEF StackInv, HandlersDistinct, HandlerOf
<1> QED
  BY <1>7, <1>8, <1>9, <1>10, <1>11 DEF StackInv

\* SetSigCheck with something pending: the frame goes on to "change" and a
\* loop comes to lie on it.
LEMMA CheckPendingInv ==
  ASSUME SigTypeOK, StackInv, InC("setsig", "check"),
         frames' = Append(Front(frames), [Top EXCEPT !.at = "change"]) \o <<NewLoop>>,
         UNCHANGED <<psig_pend, blocked>>
  PROVE  StackInv'
<1> DEFINE n == Len(frames)
           f == [Top EXCEPT !.at = "change"]
<1>1. frames # <<>> /\ Top.fn = "setsig"
  BY DEF InC, TopIs
<1>2. f \in Frames /\ f.fn = "setsig" /\ f.at = "change" /\ f.save = Top.save
  BY <1>1, TopType DEF Setsigs, Frames
<1>3. NewLoop \in Frames /\ NewLoop.fn = "despatch" /\ NewLoop.at = "test"
  BY SignalsAssumption DEF NewLoop, Frames, Loops, Sigs
<1>4. n \in Nat \ {0} /\ n - 1 \in Nat /\ frames \in Seq(Frames) /\ Top = frames[n]
  BY <1>1, TopType DEF SigTypeOK, Frames, Top
<1> HIDE DEF f, n
<1>5. /\ Len(frames') = n + 1 /\ frames'[n + 1] = NewLoop /\ frames'[n] = f
      /\ \A k \in 1 .. n - 1 : frames'[k] = frames[k]
  BY <1>1, <1>2, <1>3, ReplacePushStep DEF f, n
<1>6. OnlyTheTopIsInC'
  <2> SUFFICES ASSUME NEW k \in 1 .. n
               PROVE  \/ frames'[k].fn = "despatch" /\ frames'[k].at = "handler"
                      \/ frames'[k].fn = "setsig" /\ frames'[k].at = "change"
    BY <1>4, <1>5 DEF OnlyTheTopIsInC
  <2>1. k = n \/ k \in 1 .. n - 1
    BY <1>4
  <2> QED
    BY <1>2, <1>5, <2>1 DEF StackInv, OnlyTheTopIsInC, n
<1>7. CallsWhatIsRecorded'
  <2> SUFFICES ASSUME NEW k \in 1 .. n + 1
               PROVE  frames'[k].fn # "despatch" \/ frames'[k].at \notin {"block", "call"}
    BY <1>5 DEF CallsWhatIsRecorded
  <2>1. k = n + 1 \/ k \in 1 .. n
    BY <1>4
  <2>2. CASE k = n + 1
    BY <1>3, <1>5, <2>2
  <2>3. CASE k \in 1 .. n
    BY <1>4, <1>5, <1>6, <2>3 DEF OnlyTheTopIsInC
  <2> QED
    BY <2>1, <2>2, <2>3
<1>8. \A s \in Sigs, k \in 1 .. n + 1 :
        HandlerOf(frames'[k], s) => k \in 1 .. n - 1 /\ HandlerOf(frames[k], s)
  BY <1>2, <1>3, <1>4, <1>5 DEF HandlerOf
<1>9. HandledIsNotRecorded'
  BY <1>4, <1>5, <1>8 DEF StackInv, HandledIsNotRecorded, HandlerOf, Recorded, n
<1>10. SavedMaskCovers'
  <2> SUFFICES ASSUME NEW k \in 1 .. n + 1, frames'[k].fn = "setsig",
                      NEW s \in Sigs, NEW j \in 1 .. k - 1, HandlerOf(frames'[j], s)
               PROVE  s \in frames'[k].save
    BY <1>5 DEF SavedMaskCovers, HandlerOf
  <2>3. j \in 1 .. n + 1
    BY <1>4
  <2>1. j \in 1 .. n - 1 /\ HandlerOf(frames[j], s)
    BY <1>8, <2>3, Zenon
  <2>2. k \in 1 .. n /\ frames[k].fn = "setsig" /\ frames[k].save = frames'[k].save
    BY <1>1, <1>2, <1>3, <1>4, <1>5
  <2> QED
    BY <2>1, <2>2 DEF StackInv, SavedMaskCovers, n
<1>11. HandlersDistinct'
  <2> SUFFICES ASSUME NEW s \in Sigs, NEW j \in 1 .. n + 1, NEW k \in 1 .. n + 1,
                      HandlerOf(frames'[j], s), HandlerOf(frames'[k], s)
               PROVE  j = k
    BY <1>5 DEF HandlersDistinct, HandlerOf
  <2>1. /\ j \in 1 .. n /\ HandlerOf(frames[j], s)
        /\ k \in 1 .. n /\ HandlerOf(frames[k], s)
    <3>1. j \in 1 .. n - 1 /\ HandlerOf(frames[j], s)
      BY <1>8, Zenon
    <3>2. k \in 1 .. n - 1 /\ HandlerOf(frames[k], s)
      BY <1>8, Zenon
    <3> QED
      BY <1>4, <3>1, <3>2
  <2> QED
    BY <2>1 DEF StackInv, HandlersDistinct, n
<1> QED
  BY <1>6, <1>7, <1>9, <1>10, <1>11 DEF StackInv

LEMMA NextStackInv == SigTypeOK /\ StackInv /\ [SigNext]_sig_vars => StackInv'
<1> SUFFICES ASSUME SigTypeOK, StackInv, [SigNext]_sig_vars PROVE StackInv'
  OBVIOUS
<1>0. frames \in Seq(Frames) /\ Len(frames) \in Nat
  BY LenProperties DEF SigTypeOK, Frames
\* Perl code runs, so no frame is in the middle of interpreter code.
<1>p. ASSUME frames = <<>> \/ TopIs("despatch", "handler")
      PROVE  \A k \in 1 .. Len(frames) : frames[k].at \notin {"block", "call"}
  <2>1. CASE frames = <<>>
    BY <2>1
  <2>2. CASE TopIs("despatch", "handler")
    <3> SUFFICES ASSUME NEW k \in 1 .. Len(frames)
                 PROVE  frames[k].at \notin {"block", "call"}
      OBVIOUS
    <3>1. k = Len(frames) \/ k \in 1 .. Len(frames) - 1
      BY <1>0
    <3> QED
      BY <2>2, <3>1 DEF TopIs, Top, StackInv, OnlyTheTopIsInC
  <2> QED
    BY <1>p, <2>1, <2>2
<1>1. ASSUME NEW s \in Sigs, Kill(s) PROVE StackInv'
  BY <1>1
  DEF Kill, tables, StackInv, OnlyTheTopIsInC, CallsWhatIsRecorded,
      HandledIsNotRecorded, SavedMaskCovers, HandlersDistinct, Recorded, HandlerOf
<1>2. ASSUME NEW s \in Sigs, Deliver(s) PROVE StackInv'
  <2>1. /\ frames' = frames /\ blocked \subseteq blocked' /\ s \notin blocked
        /\ status' = "running" => status = "running"
        /\ psig_pend' \in {psig_pend, [psig_pend EXCEPT ![s] = @ + 1]}
    BY <1>2 DEF Deliver, Catch
  <2>2. \A u \in Sigs : /\ Recorded(u) => Recorded(u)'
                        /\ u # s => (Recorded(u)' => Recorded(u))
    BY <2>1 DEF Recorded, SigTypeOK
  <2>3. \A k \in 1 .. Len(frames) :
          frames[k].fn = "despatch" => frames[k].sig \in Sigs
    BY <1>0, ElementOfSeq DEF Frames, Loops, Setsigs
  <2>4. CallsWhatIsRecorded'
    BY <2>1, <2>2, <2>3 DEF StackInv, CallsWhatIsRecorded
  <2>5. HandledIsNotRecorded'
    BY <2>1, <2>2 DEF StackInv, HandledIsNotRecorded, HandlerOf
  <2> QED
    BY <2>1, <2>4, <2>5
    DEF StackInv, OnlyTheTopIsInC, SavedMaskCovers, HandlersDistinct, HandlerOf
<1>3. CASE AsyncCheck
  <2>1. NewLoop \in Frames /\ NewLoop.fn = "despatch" /\ NewLoop.at = "test"
    BY SignalsAssumption DEF NewLoop, Frames, Loops, Sigs
  <2>2. frames # <<>> => Top.fn = "despatch" /\ Top.at = "handler"
    BY <1>3 DEF AsyncCheck, InPerl, TopIs
  <2> QED
    BY <1>3, <2>1, <2>2, PushInv DEF AsyncCheck, kernel, HandlerOf
<1>4. CASE DespatchTest
  <2>1. /\ frames # <<>> /\ Top.fn = "despatch" /\ Top.at = "test"
        /\ Top \in Loops /\ UNCHANGED <<psig_pend, blocked>>
    BY <1>4, TopType DEF DespatchTest, InC, TopIs, kernel, tables
  <2>2. \A s \in Sigs, k \in 1 .. Len(frames) - 1 :
          HandlerOf(frames[k], s) => s \in blocked'
    BY <1>0, <2>1 DEF StackInv, HandledIsNotRecorded
  <2>3. CASE Recorded(Top.sig) /\ SetTop([Top EXCEPT !.at = "block"])
    <3> DEFINE f == [Top EXCEPT !.at = "block"]
    <3>1. f \in Frames /\ f.at = "block" /\ f.sig = Top.sig /\ f.fn = "despatch"
      BY <2>1 DEF Frames, Loops
    <3>2. SetTop(f)
      BY <2>3
    <3> HIDE DEF f
    <3> QED
      BY <2>1, <2>2, <2>3, <3>1, <3>2, SetTopInv DEF HandlerOf, Recorded
  <2>4. CASE NextSig
    BY <2>1, <2>2, <2>4, NextSigInv DEF Recorded
  <2> QED
    BY <1>4, <2>3, <2>4 DEF DespatchTest, Recorded
<1>5. CASE DespatchBlock
  <2> DEFINE f == [Top EXCEPT !.at = "call", !.was_blocked = Top.sig \in blocked]
  <2>1. /\ frames # <<>> /\ Top.fn = "despatch" /\ Top.at = "block"
        /\ Top \in Loops /\ UNCHANGED psig_pend /\ blocked' = blocked \cup {Top.sig}
        /\ status = "running" /\ SetTop(f)
    BY <1>5, TopType DEF DespatchBlock, InC, TopIs, tables
  <2>2. \A s \in Sigs, k \in 1 .. Len(frames) - 1 :
          HandlerOf(frames[k], s) => s \in blocked'
    BY <1>0, <2>1 DEF StackInv, HandledIsNotRecorded
  <2>3. f.at = "call" /\ f.sig = Top.sig /\ f.fn = "despatch"
    BY <2>1 DEF Loops
  <2>4. f \in Frames
    <3>1. \A b \in BOOLEAN :
            [Top EXCEPT !.at = "call", !.was_blocked = b] \in Frames
      BY <2>1 DEF Frames, Loops
    <3>2. (Top.sig \in blocked) \in BOOLEAN
      OBVIOUS
    <3> QED
      BY <3>1, <3>2, Zenon
  <2>5. Recorded(Top.sig)
    <3>1. Len(frames) \in 1 .. Len(frames) /\ Top = frames[Len(frames)]
      BY <2>1, TopType DEF Top
    <3> QED
      BY <2>1, <3>1 DEF StackInv, CallsWhatIsRecorded
  <2> HIDE DEF f
  <2> QED
    BY <2>1, <2>2, <2>3, <2>4, <2>5, SetTopInv DEF HandlerOf, Recorded
<1>6. CASE DespatchCall
  <2>1. /\ frames # <<>> /\ Top.fn = "despatch" /\ Top.at = "call"
        /\ Top \in Loops /\ Top.sig \in Sigs /\ status = "running"
        /\ psig_pend' = [psig_pend EXCEPT ![Top.sig] = 0]
    BY <1>6, TopType DEF DespatchCall, InC, TopIs, Loops
  <2>2. \A s \in Sigs : Recorded(s)' => Recorded(s)
    BY <2>1 DEF Recorded, SigTypeOK
  <2>3. CASE SetTop([Top EXCEPT !.at = "handler"]) /\ UNCHANGED blocked
    BY <1>6, <2>1, <2>3, CallHandlerInv DEF DespatchCall
  <2>4. CASE status' = "exit(sig)" /\ UNCHANGED <<blocked, frames>>
    <3>1. HandledIsNotRecorded'
      BY <2>2, <2>4 DEF StackInv, HandledIsNotRecorded, HandlerOf
    <3> QED
      BY <2>4, <3>1
      DEF StackInv, OnlyTheTopIsInC, CallsWhatIsRecorded, SavedMaskCovers,
          HandlersDistinct, HandlerOf
  <2>5. CASE NextSig /\ blocked' = Unblocked(Top)
    BY <2>1, <2>2, <2>5, UnblockedCovers, NextSigInv
  <2> QED
    BY <1>6, <2>3, <2>4, <2>5 DEF DespatchCall
<1>7. CASE HandlerReturn
  <2>1. /\ frames # <<>> /\ Top.fn = "despatch" /\ Top.at = "handler"
        /\ status = "running" /\ UNCHANGED psig_pend
        /\ NextSig /\ blocked' = Unblocked(Top)
    BY <1>7 DEF HandlerReturn, InPerl, TopIs, tables
  <2> QED
    BY <2>1, UnblockedCovers, NextSigInv DEF Recorded
<1>8. CASE Die \/ Eval \/ DieUncaught
  BY <1>8
  DEF Die, Eval, DieUncaught, kernel, tables, StackInv, OnlyTheTopIsInC,
      CallsWhatIsRecorded, HandledIsNotRecorded, SavedMaskCovers,
      HandlersDistinct, Recorded, HandlerOf
<1>9. CASE Unwind
  <2>1. /\ frames # <<>> /\ status = "running" /\ UNCHANGED psig_pend /\ Pop
    BY <1>9 DEF Unwind, tables
  <2>2. ASSUME NEW s \in Sigs, NEW k \in 1 .. Len(frames) - 1, HandlerOf(frames[k], s)
        PROVE  s \in blocked'
    <3>1. /\ Len(frames) \in Nat \ {0} /\ k \in 1 .. Len(frames)
          /\ Top = frames[Len(frames)]
      BY <2>1, TopType DEF Top
    <3>2. s \in blocked
      BY <2>2, <3>1 DEF StackInv, HandledIsNotRecorded
    <3>3. CASE Top.fn = "setsig" /\ blocked' = Top.save
      BY <2>2, <3>1, <3>3 DEF StackInv, SavedMaskCovers
    <3>4. CASE Top.fn = "despatch" /\ Top.at \in {"call", "handler"}
               /\ blocked' = Unblocked(Top)
      BY <2>1, <2>2, <3>4, UnblockedCovers
    <3> QED
      BY <1>9, <3>2, <3>3, <3>4 DEF Unwind, TopIs
  <2> QED
    BY <2>1, <2>2, PopInv DEF Recorded
<1>10. ASSUME NEW s \in Sigs, NEW new \in Settings \cup {"NULL"}, SetSigEnter(s, new)
       PROVE  StackInv'
  <2> DEFINE f == [fn |-> "setsig", sig |-> s, to |-> new,
                   save |-> blocked, at |-> "check"]
  <2>1. f \in Frames /\ f.fn = "setsig" /\ f.save = blocked
    BY DEF Frames, Setsigs, SigTypeOK
  <2>2. frames # <<>> => Top.fn = "despatch" /\ Top.at = "handler"
    BY <1>10 DEF SetSigEnter, InPerl, TopIs
  <2>3. frames' = Append(frames, f) /\ psig_pend' = psig_pend /\ blocked \subseteq blocked'
    BY <1>10 DEF SetSigEnter, tables
  <2> HIDE DEF f
  <2> QED
    BY <2>1, <2>2, <2>3, PushInv DEF HandlerOf
<1>11. CASE SetSigCheck
  <2>1. /\ frames # <<>> /\ Top.fn = "setsig" /\ Top \in Setsigs
        /\ UNCHANGED <<psig_pend, blocked>>
    BY <1>11, TopType DEF SetSigCheck, InC, TopIs, kernel
  <2>2. CASE SetTop([Top EXCEPT !.at = "change"])
    <3> DEFINE f == [Top EXCEPT !.at = "change"]
    <3>1. f \in Frames /\ f.fn = "setsig" /\ f.save = Top.save
      BY <2>1 DEF Frames, Setsigs
    <3>2. \A s \in Sigs, k \in 1 .. Len(frames) - 1 :
            HandlerOf(frames[k], s) => s \in blocked'
      BY <1>0, <2>1 DEF StackInv, HandledIsNotRecorded
    <3>3. SetTop(f)
      BY <2>2
    <3> HIDE DEF f
    <3> QED
      BY <2>1, <3>1, <3>2, <3>3, SetTopInv DEF HandlerOf, Recorded
  <2> QED
    BY <1>11, <2>1, <2>2, CheckPendingInv DEF SetSigCheck
<1>12. CASE SetSigChange
  <2>1. /\ frames # <<>> /\ Top.fn = "setsig" /\ Pop
        /\ blocked' = Top.save /\ UNCHANGED psig_pend
    BY <1>12 DEF SetSigChange, InC, TopIs
  <2>2. ASSUME NEW s \in Sigs, NEW k \in 1 .. Len(frames) - 1, HandlerOf(frames[k], s)
        PROVE  s \in blocked'
    <3>1. Len(frames) \in Nat \ {0} /\ Top = frames[Len(frames)]
      BY <2>1, TopType DEF Top
    <3> QED
      BY <2>1, <2>2, <3>1 DEF StackInv, SavedMaskCovers
  <2> QED
    BY <2>1, <2>2, PopInv DEF Recorded
<1>13. CASE Fork \/ Destruct
  <2>1. /\ frames' = frames /\ blocked' = blocked
        /\ \A s \in Sigs : ~Recorded(s)'
        /\ frames = <<>> \/ TopIs("despatch", "handler")
    BY <1>13 DEF Fork, Destruct, kernel, InPerl, Recorded
  <2>2. CallsWhatIsRecorded'
    BY <1>p, <2>1 DEF CallsWhatIsRecorded
  <2>3. HandledIsNotRecorded'
    BY <2>1 DEF StackInv, HandledIsNotRecorded, HandlerOf
  <2> QED
    BY <2>1, <2>2, <2>3
    DEF StackInv, OnlyTheTopIsInC, SavedMaskCovers, HandlersDistinct, HandlerOf
<1>14. CASE UNCHANGED sig_vars
  BY <1>14
  DEF sig_vars, StackInv, OnlyTheTopIsInC, CallsWhatIsRecorded, HandledIsNotRecorded,
      SavedMaskCovers, HandlersDistinct, Recorded, HandlerOf
<1> QED
  BY <1>1, <1>2, <1>3, <1>4, <1>5, <1>6, <1>7, <1>8, <1>9, <1>10, <1>11,
     <1>12, <1>13, <1>14
  DEF SigNext, Despatch, SetSig

IInv == SigTypeOK /\ StackInv

LEMMA InitIInv == SigInit => IInv
<1> SUFFICES ASSUME SigInit PROVE StackInv
  BY InitTypeOK DEF IInv
<1>1. Len(frames) = 0
  BY EmptySeq DEF SigInit
<1> QED
  BY <1>1
  DEF StackInv, OnlyTheTopIsInC, CallsWhatIsRecorded, HandledIsNotRecorded,
      SavedMaskCovers, HandlersDistinct

LEMMA NextIInv == IInv /\ [SigNext]_sig_vars => IInv'
  BY NextTypeOK, NextStackInv DEF IInv

THEOREM SpecIInv == SigSpec => []IInv
  BY InitIInv, NextIInv, PTL DEF SigSpec

LEMMA FramesDomain == SigTypeOK => DOMAIN frames = 1 .. Len(frames)
  BY LenProperties DEF SigTypeOK

\* A signal is blocked as long as its handler runs, through every nesting of
\* handlers, assignments to %SIG and exceptions.
THEOREM HandlerBlocks == SigSpec => []HandlerBlocksItsSignal
<1>1. IInv => HandlerBlocksItsSignal
  <2> SUFFICES ASSUME IInv, NEW k \in 1 .. Len(frames),
                      frames[k].fn = "despatch", frames[k].at = "handler"
               PROVE  frames[k].sig \in blocked
    BY FramesDomain DEF IInv, HandlerBlocksItsSignal
  <2>1. frames[k] \in Frames
    BY ElementOfSeq DEF IInv, SigTypeOK, Frames
  <2>2. frames[k].sig \in Sigs
    BY <2>1 DEF Frames, Loops, Setsigs
  <2> QED
    BY <2>2 DEF IInv, StackInv, HandledIsNotRecorded, HandlerOf
<1> QED
  BY <1>1, SpecIInv, PTL

\* No handler is entered again before it has returned.
THEOREM NoHandlerReentered == SigSpec => []NoReentrance
<1>1. IInv => NoReentrance
  BY FramesDomain DEF IInv, StackInv, HandlersDistinct, NoReentrance
<1> QED
  BY <1>1, SpecIInv, PTL

-----------------------------------------------------------------------------
(* Recorded signals are not overlooked.                                    *)

\* Frames that stay where they are go on noticing what they noticed.
LEMMA KeptNotices ==
  ASSUME frames' = frames, NEW s \in Sigs, Noticed(s),
         sig_pending > 0 => sig_pending' > 0
  PROVE  Noticed(s)'
  BY DEF Noticed, Ahead

LEMMA PopNotices ==
  ASSUME SigTypeOK, frames # <<>>, Pop, sig_pending' = sig_pending,
         NEW s \in Sigs, Noticed(s), ~Ahead(Top, s)
  PROVE  Noticed(s)'
<1>1. CASE sig_pending > 0
  BY <1>1 DEF Noticed
<1>2. CASE \E k \in DOMAIN frames : Ahead(frames[k], s)
  <2> DEFINE n == Len(frames)
  <2>1. n \in Nat \ {0} /\ Top = frames[n] /\ DOMAIN frames = 1 .. n
    BY TopType, FramesDomain DEF Top
  <2>2. DOMAIN frames' = 1 .. n - 1 /\ \A k \in 1 .. n - 1 : frames'[k] = frames[k]
    BY PopStep, LenProperties
  <2> HIDE DEF n
  <2>3. PICK k \in 1 .. n : Ahead(frames[k], s)
    BY <1>2, <2>1
  <2>4. k # n
    BY <2>1, <2>3
  <2>5. k \in 1 .. n - 1
    BY <2>1, <2>4
  <2> QED
    BY <2>2, <2>3, <2>5 DEF Noticed
<1> QED
  BY <1>1, <1>2 DEF Noticed

LEMMA SetTopNotices ==
  ASSUME SigTypeOK, frames # <<>>, NEW f \in Frames, SetTop(f), sig_pending' = sig_pending,
         NEW s \in Sigs, Noticed(s), Ahead(Top, s) => Ahead(f, s)
  PROVE  Noticed(s)'
<1>1. CASE sig_pending > 0
  BY <1>1 DEF Noticed
<1>2. CASE \E k \in DOMAIN frames : Ahead(frames[k], s)
  <2> DEFINE n == Len(frames)
  <2>1. n \in Nat \ {0} /\ Top = frames[n] /\ DOMAIN frames = 1 .. n
    BY TopType, FramesDomain DEF Top
  <2>2. /\ DOMAIN frames' = 1 .. n /\ frames'[n] = f
        /\ \A k \in 1 .. n - 1 : frames'[k] = frames[k]
    BY SetTopStep, LenProperties
  <2> HIDE DEF n
  <2>3. PICK k \in 1 .. n : Ahead(frames[k], s)
    BY <1>2, <2>1
  <2>4. k = n \/ k \in 1 .. n - 1
    BY <2>1
  <2>5. Ahead(frames'[k], s)
    BY <2>1, <2>2, <2>3, <2>4
  <2> QED
    BY <2>2, <2>5 DEF Noticed
<1> QED
  BY <1>1, <1>2 DEF Noticed

\* The loop that goes on from a signal passes over nothing that is recorded,
\* if that signal itself is not, or is the one whose handler it has called.
LEMMA NextSigNotices ==
  ASSUME SigTypeOK, frames # <<>>, Top.fn = "despatch", NextSig,
         sig_pending' = sig_pending,
         NEW s \in Sigs, Noticed(s), s # Top.sig \/ Top.at = "handler"
  PROVE  Noticed(s)'
<1> DEFINE f == [Top EXCEPT !.sig = @ + 1, !.at = "test"]
<1>1. Top \in Loops /\ s <= LastSig /\ s \in Nat /\ Top.sig \in Nat /\ LastSig \in Nat
  BY TopType, SignalsAssumption DEF Sigs, Loops
<1>2. Ahead(Top, s) => Top.sig < s
  BY DEF Ahead
<1>3. CASE Pop /\ ~(Top.sig < LastSig)
  <2>1. ~(Top.sig < s)
    BY <1>1, <1>3
  <2> QED
    BY <1>2, <1>3, <2>1, PopNotices
<1>4. CASE f \in Loops /\ SetTop(f)
  <2>1. f.fn = "despatch" /\ f.at = "test" /\ f.sig = Top.sig + 1 /\ f \in Frames
    BY <1>1, <1>4 DEF Loops, Frames
  <2>2. Top.sig < s => Top.sig + 1 < s \/ Top.sig + 1 = s
    BY <1>1
  <2>3. Ahead(Top, s) => Ahead(f, s)
    <3> HIDE DEF f
    <3> QED
      BY <1>2, <2>1, <2>2 DEF Ahead
  <2> HIDE DEF f
  <2> QED
    BY <1>4, <2>1, <2>3, SetTopNotices
<1> QED
  BY <1>3, <1>4, NextSigStep

\* A new loop has every signal ahead of it.
LEMMA NewLoopNotices ==
  ASSUME NEW s \in Sigs, NEW k \in DOMAIN frames', frames'[k] = NewLoop
  PROVE  Noticed(s)'
<1>1. Ahead(NewLoop, s)
  BY SignalsAssumption DEF Ahead, NewLoop, Sigs
<1> QED
  BY <1>1 DEF Noticed

\* Only an exception can strand a recorded signal.
THEOREM DieAloneStrands == SigSpec => OnlyADieStrands
<1>1. ASSUME SigTypeOK, [SigNext]_sig_vars, ~dying,
             NEW s \in Sigs, Recorded(s), Noticed(s), Recorded(s)', status' = "running"
      PROVE  Noticed(s)'
  <2> USE <1>1
  <2>0. /\ frames \in Seq(Frames) /\ Len(frames) \in Nat /\ sig_pending \in Nat
        /\ Len(frames) + 1 \in 1 .. Len(frames) + 1
    BY LenProperties DEF SigTypeOK, Frames
  <2>l. NewLoop \in Frames
    BY SignalsAssumption DEF NewLoop, Frames, Loops, Sigs
  <2>1. ASSUME NEW u \in Sigs, Kill(u) PROVE Noticed(s)'
    BY <2>1, KeptNotices DEF Kill, tables
  <2>2. ASSUME NEW u \in Sigs, Deliver(u) PROVE Noticed(s)'
    <3>1. frames' = frames /\ sig_pending' \in {sig_pending, sig_pending + 1}
      BY <2>2 DEF Deliver, Catch
    <3> QED
      BY <2>0, <3>1, KeptNotices
  <2>3. CASE AsyncCheck
    <3>1. /\ frames'[Len(frames) + 1] = NewLoop
          /\ DOMAIN frames' = 1 .. Len(frames) + 1
      BY <2>0, <2>3, <2>l, AppendProperties, LenProperties DEF AsyncCheck
    <3> QED
      BY <2>0, <3>1, NewLoopNotices
  <2>4. CASE DespatchTest
    <3>1. frames # <<>> /\ Top.fn = "despatch" /\ Top.at = "test" /\ Top \in Loops
          /\ sig_pending' = sig_pending
      BY <2>4, TopType DEF DespatchTest, InC, TopIs, tables
    <3>2. CASE SetTop([Top EXCEPT !.at = "block"])
      <4> DEFINE f == [Top EXCEPT !.at = "block"]
      <4>1. f \in Frames /\ (Ahead(Top, s) => Ahead(f, s))
        BY <3>1 DEF Frames, Loops, Ahead
      <4> QED
        BY <3>1, <3>2, <4>1, SetTopNotices
    <3>3. CASE ~Recorded(Top.sig) /\ NextSig
      BY <3>1, <3>3, NextSigNotices
    <3> QED
      BY <2>4, <3>2, <3>3 DEF DespatchTest, Recorded
  <2>5. CASE DespatchBlock
    <3> DEFINE f == [Top EXCEPT !.at = "call", !.was_blocked = Top.sig \in blocked]
    <3>1. frames # <<>> /\ Top \in Loops /\ Top.at = "block" /\ SetTop(f)
          /\ sig_pending' = sig_pending
      BY <2>5, TopType DEF DespatchBlock, InC, TopIs, tables
    <3>2. f \in Frames
      <4>1. \A b \in BOOLEAN :
              [Top EXCEPT !.at = "call", !.was_blocked = b] \in Frames
        BY <3>1 DEF Frames, Loops
      <4>2. (Top.sig \in blocked) \in BOOLEAN
        OBVIOUS
      <4> QED
        BY <4>1, <4>2, Zenon
    <3>3. f.fn = Top.fn /\ f.sig = Top.sig /\ f.at = "call"
      BY <3>1 DEF Loops
    <3> HIDE DEF f
    <3>4. Ahead(Top, s) => Ahead(f, s)
      BY <3>3 DEF Ahead
    <3> QED
      BY <3>1, <3>2, <3>4, SetTopNotices
  <2>6. CASE DespatchCall
    <3>1. frames # <<>> /\ Top.fn = "despatch" /\ Top.at = "call" /\ Top \in Loops
          /\ sig_pending' = sig_pending /\ s # Top.sig
      BY <2>6, TopType DEF DespatchCall, InC, TopIs, SigTypeOK, Recorded
    <3>2. CASE SetTop([Top EXCEPT !.at = "handler"])
      <4> DEFINE f == [Top EXCEPT !.at = "handler"]
      <4>1. f \in Frames /\ (Ahead(Top, s) => Ahead(f, s))
        BY <3>1 DEF Frames, Loops, Ahead
      <4> QED
        BY <3>1, <3>2, <4>1, SetTopNotices
    <3>3. CASE NextSig
      BY <3>1, <3>3, NextSigNotices
    <3> QED
      BY <2>6, <3>2, <3>3 DEF DespatchCall
  <2>7. CASE HandlerReturn
    BY <2>7, NextSigNotices DEF HandlerReturn, InPerl, TopIs, tables
  <2>8. CASE Die
    BY <2>8, KeptNotices DEF Die, tables
  <2>9. ASSUME NEW u \in Sigs, NEW new \in Settings \cup {"NULL"}, SetSigEnter(u, new)
        PROVE  Noticed(s)'
    <3> DEFINE f == [fn |-> "setsig", sig |-> u, to |-> new,
                     save |-> blocked, at |-> "check"]
    <3>1. f \in Frames
      BY DEF Frames, Setsigs, SigTypeOK
    <3>2. frames' = Append(frames, f) /\ sig_pending' = sig_pending
      BY <2>9 DEF SetSigEnter, tables
    <3> HIDE DEF f
    <3>3. /\ \A k \in DOMAIN frames : k \in DOMAIN frames' /\ frames'[k] = frames[k]
      BY <2>0, <3>1, <3>2, AppendProperties, LenProperties
    <3> QED
      BY <3>2, <3>3 DEF Noticed
  <2>10. CASE SetSigCheck
    <3>1. frames # <<>> /\ Top.fn = "setsig" /\ Top \in Setsigs
      BY <2>10, TopType DEF SetSigCheck, InC, TopIs
    <3>2. [Top EXCEPT !.at = "change"] \in Frames
      BY <3>1 DEF Frames, Setsigs
    <3>3. CASE frames' = Append(Front(frames), [Top EXCEPT !.at = "change"]) \o <<NewLoop>>
      <4>1. frames'[Len(frames) + 1] = NewLoop /\ Len(frames') = Len(frames) + 1
        BY <2>l, <3>1, <3>2, <3>3, ReplacePushStep
      <4>2. frames' \in Seq(Frames)
        BY NextTypeOK DEF SigTypeOK, Frames
      <4> QED
        BY <2>0, <4>1, <4>2, LenProperties, NewLoopNotices
    <3>4. CASE SetTop([Top EXCEPT !.at = "change"]) /\ UNCHANGED sig_pending
      BY <3>1, <3>2, <3>4, SetTopNotices DEF Ahead
    <3> QED
      BY <2>10, <3>3, <3>4 DEF SetSigCheck
  <2>11. CASE SetSigChange
    BY <2>11, PopNotices DEF SetSigChange, InC, TopIs, Ahead
  <2>12. CASE UNCHANGED sig_vars
    BY <2>12, KeptNotices DEF sig_vars
  \* What is left takes an exception, forgets the records, or is an end.
  <2>13. ~Eval /\ ~Unwind /\ ~DieUncaught /\ ~Fork /\ ~Destruct
    BY DEF Eval, Unwind, DieUncaught, Fork, Destruct, Recorded
  <2> QED
    BY <2>1, <2>2, <2>3, <2>4, <2>5, <2>6, <2>7, <2>8, <2>9, <2>10, <2>11,
       <2>12, <2>13
    DEF SigNext, Despatch, SetSig
<1> DEFINE Keeps ==
      ~dying => \A s \in Sigs : Recorded(s) /\ Noticed(s) =>
                  (Recorded(s) /\ status = "running" => Noticed(s))'
<1>2. SigTypeOK /\ [SigNext]_sig_vars => [Keeps]_sig_vars
  BY <1>1
<1> QED
  BY <1>2, TypeCorrect, PTL DEF SigSpec, OnlyADieStrands

-----------------------------------------------------------------------------
(* The mask.                                                               *)

\* Frames that have blocked their signal, or found it blocked, and the signals
\* of the first n frames that have.
Holds(f) == f.fn = "setsig" \/ f.at \in {"call", "handler"}
Held(stack, n) == {stack[k].sig : k \in {j \in 1 .. n : Holds(stack[j])}}

\* What f will do with the mask when it is left is right, if the mask was m
\* when it was entered.
Remembers(f, m) ==
  /\ f.fn = "setsig" => f.save = m
  /\ f.fn = "despatch" /\ Holds(f) => f.was_blocked = (f.sig \in m)

\* The blocked signals are those of the frames that hold them.
MaskIsHeld ==
  /\ blocked = Held(frames, Len(frames))
  /\ \A k \in 1 .. Len(frames) : Remembers(frames[k], Held(frames, k - 1))

\* Each signal that is counted or on its way has been sent, so that the limit
\* is not reached before as many have been.
EachWasSent == IsFiniteSet(kpending) /\ sig_pending + Cardinality(kpending) <= kills

MaskInv == EachWasSent /\ (kills < DieCount => MaskIsHeld)

LEMMA HeldNext ==
  ASSUME NEW stack, NEW n \in Nat
  PROVE  Held(stack, n + 1) =
           IF Holds(stack[n + 1]) THEN Held(stack, n) \cup {stack[n + 1].sig}
                                  ELSE Held(stack, n)
<1>1. \A j : j \in 1 .. n + 1 <=> j \in 1 .. n \/ j = n + 1
  OBVIOUS
<1> QED
  BY <1>1, Zenon DEF Held

LEMMA HeldSame ==
  ASSUME NEW r, NEW s, NEW n \in Nat, \A k \in 1 .. n : r[k] = s[k]
  PROVE  /\ Held(r, n) = Held(s, n)
         /\ \A k \in 1 .. n : Held(r, k - 1) = Held(s, k - 1)
<1>1. Held(r, n) = Held(s, n)
  BY DEF Held
<1>2. ASSUME NEW k \in 1 .. n PROVE Held(r, k - 1) = Held(s, k - 1)
  <2>1. \A j \in 1 .. k - 1 : r[j] = s[j]
    OBVIOUS
  <2> QED
    BY <2>1 DEF Held
<1> QED
  BY <1>1, <1>2

LEMMA HeldNothing == \A s : Held(s, 0) = {}
  BY DEF Held

\* The frames below the top stay, and it becomes f or goes away.
LEMMA PopMask ==
  ASSUME SigTypeOK, MaskIsHeld, frames # <<>>, Pop,
         blocked' = Held(frames, Len(frames) - 1)
  PROVE  MaskIsHeld'
<1> DEFINE n == Len(frames) - 1
<1>1. n \in Nat /\ Len(frames') = n /\ n + 1 = Len(frames)
      /\ \A k \in 1 .. n : frames'[k] = frames[k] /\ k \in 1 .. Len(frames)
  BY TopType, PopStep
<1> HIDE DEF n
<1>2. /\ Held(frames', n) = Held(frames, n)
      /\ \A k \in 1 .. n : Held(frames', k - 1) = Held(frames, k - 1)
  BY <1>1, HeldSame
<1>3. blocked' = Held(frames, n)
  BY DEF n
<1> QED
  BY <1>1, <1>2, <1>3 DEF MaskIsHeld

LEMMA SetTopMask ==
  ASSUME SigTypeOK, MaskIsHeld, frames # <<>>, NEW f \in Frames, SetTop(f),
         Remembers(f, Held(frames, Len(frames) - 1)),
         blocked' = IF Holds(f) THEN Held(frames, Len(frames) - 1) \cup {f.sig}
                                ELSE Held(frames, Len(frames) - 1)
  PROVE  MaskIsHeld'
<1> DEFINE n == Len(frames) - 1
<1>1. n \in Nat /\ Len(frames') = n + 1 /\ n + 1 = Len(frames) /\ frames'[n + 1] = f
      /\ \A k \in 1 .. n : frames'[k] = frames[k] /\ k \in 1 .. Len(frames)
  BY TopType, SetTopStep
<1>2. Remembers(f, Held(frames, n))
      /\ blocked' = IF Holds(f) THEN Held(frames, n) \cup {f.sig} ELSE Held(frames, n)
  OBVIOUS
<1> HIDE DEF n
<1>3. /\ Held(frames', n) = Held(frames, n)
      /\ \A k \in 1 .. n : Held(frames', k - 1) = Held(frames, k - 1)
  BY <1>1, HeldSame
<1>4. Held(frames', n + 1) = blocked'
  BY <1>1, <1>2, <1>3, HeldNext
<1>5. ASSUME NEW k \in 1 .. n + 1 PROVE Remembers(frames'[k], Held(frames', k - 1))
  <2>1. CASE k = n + 1
    BY <1>1, <1>2, <1>3, <2>1
  <2>2. CASE k \in 1 .. n
    BY <1>1, <1>3, <2>2 DEF MaskIsHeld
  <2> QED
    BY <1>1, <2>1, <2>2
<1> QED
  BY <1>1, <1>4, <1>5 DEF MaskIsHeld

\* f comes to lie on the stack.
LEMMA PushMask ==
  ASSUME SigTypeOK, MaskIsHeld, NEW f \in Frames, frames' = Append(frames, f),
         Remembers(f, blocked),
         blocked' = IF Holds(f) THEN blocked \cup {f.sig} ELSE blocked
  PROVE  MaskIsHeld'
<1> DEFINE n == Len(frames)
<1>1. n \in Nat /\ Len(frames') = n + 1 /\ frames'[n + 1] = f
      /\ \A k \in 1 .. n : frames'[k] = frames[k]
  BY AppendProperties, LenProperties DEF SigTypeOK, Frames
<1>2. blocked = Held(frames, n)
  BY DEF MaskIsHeld
<1>3. \A k \in 1 .. n : Remembers(frames[k], Held(frames, k - 1))
  BY DEF MaskIsHeld
<1> HIDE DEF n
<1>4. /\ Held(frames', n) = Held(frames, n)
      /\ \A k \in 1 .. n : Held(frames', k - 1) = Held(frames, k - 1)
  BY <1>1, HeldSame
<1>5. Held(frames', n + 1) = blocked'
  BY <1>1, <1>2, <1>4, HeldNext
<1>6. ASSUME NEW k \in 1 .. n + 1 PROVE Remembers(frames'[k], Held(frames', k - 1))
  <2>1. CASE k = n + 1
    BY <1>1, <1>2, <1>4, <2>1
  <2>2. CASE k \in 1 .. n
    BY <1>1, <1>3, <1>4, <2>2
  <2> QED
    BY <1>1, <2>1, <2>2
<1> QED
  BY <1>1, <1>5, <1>6 DEF MaskIsHeld

\* An assignment to %SIG becomes f, and a new loop comes to lie on it.
LEMMA ReplacePushMask ==
  ASSUME SigTypeOK, MaskIsHeld, frames # <<>>, NEW f \in Frames, NewLoop \in Frames,
         frames' = Append(Front(frames), f) \o <<NewLoop>>,
         Top.fn = "setsig", f.fn = "setsig", f.sig = Top.sig, f.save = Top.save,
         blocked' = blocked
  PROVE  MaskIsHeld'
<1> DEFINE n == Len(frames) - 1
<1>1. n \in Nat /\ Len(frames') = n + 2 /\ n + 1 = Len(frames) /\ n + 1 \in Nat
      /\ frames'[n + 1] = f /\ frames'[n + 2] = NewLoop /\ frames[n + 1] = Top
      /\ \A k \in 1 .. n : frames'[k] = frames[k] /\ k \in 1 .. Len(frames)
  <2>1. PICK l \in Nat : l = Len(frames) /\ l # 0
    BY TopType
  <2>2. /\ Len(frames') = l + 1 /\ frames'[l + 1] = NewLoop /\ frames'[l] = f
        /\ \A k \in 1 .. l - 1 : frames'[k] = frames[k]
    BY <2>1, ReplacePushStep
  <2>3. n = l - 1 /\ frames[l] = Top
    BY <2>1 DEF Top
  <2> QED BY <2>1, <2>2, <2>3
<1> HIDE DEF n
<1>2. /\ Held(frames', n) = Held(frames, n)
      /\ \A k \in 1 .. n : Held(frames', k - 1) = Held(frames, k - 1)
  <2>1. n \in Nat /\ \A k \in 1 .. n : frames'[k] = frames[k]
    BY <1>1
  <2>2. PICK r, s : r = frames' /\ s = frames
    OBVIOUS
  <2>3. \A k \in 1 .. n : r[k] = s[k]
    BY <2>1, <2>2
  <2>4. Held(r, n) = Held(s, n) /\ \A k \in 1 .. n : Held(r, k - 1) = Held(s, k - 1)
    BY <2>1, <2>3, HeldSame
  <2> QED BY <2>2, <2>4
<1>3. Held(frames', n + 1) = Held(frames, n + 1)
  <2>1. Holds(f) /\ Holds(Top)
    BY DEF Holds
  <2>2. Held(frames', n + 1) = Held(frames', n) \cup {f.sig}
    <3>1. Held(frames', n + 1) = IF Holds(frames'[n + 1])
                                   THEN Held(frames', n) \cup {frames'[n + 1].sig}
                                   ELSE Held(frames', n)
      BY <1>1, HeldNext
    <3> QED BY <1>1, <2>1, <3>1
  <2>3. Held(frames, n + 1) = Held(frames, n) \cup {Top.sig}
    <3>1. Held(frames, n + 1) = IF Holds(frames[n + 1])
                                  THEN Held(frames, n) \cup {frames[n + 1].sig}
                                  ELSE Held(frames, n)
      BY <1>1, HeldNext
    <3> QED BY <1>1, <2>1, <3>1
  <2> QED BY <1>2, <2>2, <2>3
<1>4. ~Holds(NewLoop) /\ Remembers(NewLoop, blocked)
  <2>1. NewLoop.fn = "despatch" /\ NewLoop.at = "test"
    BY DEF NewLoop
  <2> QED BY <2>1 DEF Holds, Remembers
<1>5. Held(frames', n + 2) = Held(frames', n + 1)
  <2>1. (n + 1) + 1 = n + 2
    BY <1>1
  <2>2. ~Holds(frames'[(n + 1) + 1])
    BY <1>1, <1>4, <2>1
  <2>3. Held(frames', (n + 1) + 1) = Held(frames', n + 1)
    BY <1>1, <2>2, HeldNext
  <2> QED
    BY <2>1, <2>3
<1>6. blocked = Held(frames, n + 1)
  BY <1>1 DEF MaskIsHeld
<1>7. Remembers(f, Held(frames, n))
  <2>1. Remembers(frames[n + 1], Held(frames, n + 1 - 1)) /\ n + 1 - 1 = n
    BY <1>1 DEF MaskIsHeld
  <2> QED
    BY <1>1, <2>1 DEF Remembers
<1>8. ASSUME NEW k \in 1 .. n + 2 PROVE Remembers(frames'[k], Held(frames', k - 1))
  <2>1. CASE k = n + 2
    <3>1. k - 1 = n + 1
      BY <1>1, <2>1
    <3> QED
      BY <1>1, <1>3, <1>4, <1>6, <2>1, <3>1
  <2>2. CASE k = n + 1
    <3>1. k - 1 = n
      BY <1>1, <2>2
    <3> QED
      BY <1>1, <1>2, <1>7, <2>2, <3>1
  <2>3. CASE k \in 1 .. n
    BY <1>1, <1>2, <2>3 DEF MaskIsHeld
  <2> QED
    BY <1>1, <2>1, <2>2, <2>3
<1> QED
  BY <1>1, <1>3, <1>5, <1>6, <1>8 DEF MaskIsHeld

\* The mask that the frame on top was entered with, as the frame gives it back.
LEMMA LeaveMask ==
  ASSUME SigTypeOK, MaskIsHeld, frames # <<>>
  PROVE  LET m == Held(frames, Len(frames) - 1) IN
           /\ Remembers(Top, m)
           /\ blocked = IF Holds(Top) THEN m \cup {Top.sig} ELSE m
           /\ Top.fn = "setsig" => Top.save = m
           /\ Top.fn = "despatch" /\ Holds(Top) => Unblocked(Top) = m
<1> DEFINE n == Len(frames) - 1
           m == Held(frames, n)
<1>1. n \in Nat /\ n + 1 = Len(frames) /\ frames[n + 1] = Top /\ n + 1 - 1 = n
  BY TopType DEF Top
<1> HIDE DEF n
<1>2. Remembers(Top, m)
  <2>1. Remembers(frames[n + 1], Held(frames, n + 1 - 1))
    BY <1>1 DEF MaskIsHeld
  <2> QED
    BY <1>1, <2>1
<1>3. blocked = IF Holds(Top) THEN m \cup {Top.sig} ELSE m
  BY <1>1, HeldNext DEF MaskIsHeld
<1> HIDE DEF m
<1>4. Top.fn = "setsig" => Top.save = m
  BY <1>2 DEF Remembers
<1>5. Top.fn = "despatch" /\ Holds(Top) => Unblocked(Top) = m
  BY <1>2, <1>3 DEF Remembers, Unblocked
<1> QED
  BY <1>2, <1>3, <1>4, <1>5 DEF n, m

\* The loop goes on to the next signal with the mask that it was entered with.
LEMMA NextSigMask ==
  ASSUME SigTypeOK, MaskIsHeld, frames # <<>>, Top.fn = "despatch", NextSig,
         blocked' = Held(frames, Len(frames) - 1)
  PROVE  MaskIsHeld'
<1>1. CASE Pop
  BY <1>1, PopMask
<1>2. CASE /\ [Top EXCEPT !.sig = @ + 1, !.at = "test"] \in Loops
           /\ SetTop([Top EXCEPT !.sig = @ + 1, !.at = "test"])
  <2> DEFINE f == [Top EXCEPT !.sig = @ + 1, !.at = "test"]
  <2>1. f \in Loops /\ f \in Frames /\ SetTop(f)
    BY <1>2 DEF Frames
  <2>2. f.at = "test"
    BY TopType DEF Loops
  <2> HIDE DEF f
  <2>3. ~Holds(f) /\ Remembers(f, Held(frames, Len(frames) - 1))
    BY <2>1, <2>2 DEF Holds, Remembers, Loops
  <2> QED
    BY <2>1, <2>3, SetTopMask
<1> QED
  BY <1>1, <1>2, NextSigStep

LEMMA MaskStep ==
  ASSUME SigTypeOK, MaskIsHeld, [SigNext]_sig_vars,
         \A s \in Sigs : ~Deliver(s)
  PROVE  MaskIsHeld'
<1> USE DEF SigTypeOK
<1>l. NewLoop \in Frames /\ ~Holds(NewLoop) /\ Remembers(NewLoop, blocked)
  BY SignalsAssumption DEF NewLoop, Frames, Loops, Sigs, Holds, Remembers
<1> DEFINE m == Held(frames, Len(frames) - 1)
<1>1. CASE frames' = frames /\ blocked' = blocked
  BY <1>1 DEF MaskIsHeld
<1>2. CASE AsyncCheck
  BY <1>2, <1>l, PushMask DEF AsyncCheck, kernel
<1>3. CASE DespatchTest
  <2>1. frames # <<>> /\ Top.fn = "despatch" /\ Top.at = "test" /\ Top \in Loops
        /\ blocked' = blocked
    BY <1>3, TopType DEF DespatchTest, InC, TopIs, kernel
  <2>2. blocked = m
    BY <2>1, LeaveMask DEF Holds
  <2>3. CASE SetTop([Top EXCEPT !.at = "block"])
    <3> DEFINE f == [Top EXCEPT !.at = "block"]
    <3>1. f \in Frames /\ f.fn = "despatch" /\ f.at = "block"
      BY <2>1 DEF Frames, Loops
    <3>2. SetTop(f)
      BY <2>3
    <3> HIDE DEF f
    <3>3. ~Holds(f) /\ Remembers(f, m)
      BY <3>1 DEF Holds, Remembers
    <3> QED
      BY <2>1, <2>2, <3>1, <3>2, <3>3, SetTopMask
  <2>4. CASE NextSig
    BY <2>1, <2>2, <2>4, NextSigMask
  <2> QED
    BY <1>3, <2>3, <2>4 DEF DespatchTest
<1>4. CASE DespatchBlock
  <2> DEFINE f == [Top EXCEPT !.at = "call", !.was_blocked = Top.sig \in blocked]
  <2>1. frames # <<>> /\ Top \in Loops /\ Top.at = "block" /\ SetTop(f)
        /\ blocked' = blocked \cup {Top.sig}
    BY <1>4, TopType DEF DespatchBlock, InC, TopIs
  <2>2. blocked = m
    BY <2>1, LeaveMask DEF Holds, Loops
  <2>3. f \in Frames
    <3>1. \A b \in BOOLEAN :
            [Top EXCEPT !.at = "call", !.was_blocked = b] \in Frames
      BY <2>1 DEF Frames, Loops
    <3>2. (Top.sig \in blocked) \in BOOLEAN
      OBVIOUS
    <3> QED
      BY <3>1, <3>2, Zenon
  <2>4. f.fn = "despatch" /\ f.sig = Top.sig /\ f.at = "call"
    BY <2>1 DEF Loops
  <2>5. f.was_blocked = (Top.sig \in blocked)
    BY <2>1 DEF Loops
  <2> HIDE DEF f
  <2>6. Holds(f) /\ Remembers(f, m)
    BY <2>2, <2>4, <2>5 DEF Holds, Remembers
  <2> QED
    BY <2>1, <2>2, <2>3, <2>4, <2>6, SetTopMask
<1>5. CASE DespatchCall
  <2>1. frames # <<>> /\ Top.fn = "despatch" /\ Top.at = "call" /\ Top \in Loops
        /\ Holds(Top)
    BY <1>5, TopType DEF DespatchCall, InC, TopIs, Holds
  <2>2. Unblocked(Top) = m /\ blocked = m \cup {Top.sig} /\ Remembers(Top, m)
    BY <2>1, LeaveMask
  <2>3. CASE SetTop([Top EXCEPT !.at = "handler"]) /\ UNCHANGED blocked
    <3> DEFINE f == [Top EXCEPT !.at = "handler"]
    <3>1. f \in Frames /\ f.fn = "despatch" /\ f.at = "handler" /\ f.sig = Top.sig
          /\ f.was_blocked = Top.was_blocked
      BY <2>1 DEF Frames, Loops
    <3>2. SetTop(f)
      BY <2>3
    <3> HIDE DEF f
    <3>3. Holds(f) /\ Remembers(f, m)
      BY <2>1, <2>2, <3>1 DEF Holds, Remembers
    <3> QED
      BY <2>1, <2>2, <2>3, <3>1, <3>2, <3>3, SetTopMask
  <2>4. CASE blocked' = Unblocked(Top) /\ NextSig
    BY <2>1, <2>2, <2>4, NextSigMask
  <2> QED
    BY <1>1, <1>5, <2>3, <2>4 DEF DespatchCall
<1>6. CASE HandlerReturn
  <2>1. frames # <<>> /\ Top.fn = "despatch" /\ Holds(Top)
    BY <1>6 DEF HandlerReturn, InPerl, TopIs, Holds
  <2> QED
    BY <1>6, <2>1, LeaveMask, NextSigMask DEF HandlerReturn
<1>7. CASE Unwind
  <2>1. frames # <<>> /\ Pop /\ Top \in Frames
    BY <1>7, TopType DEF Unwind
  <2>2. blocked' = m
    <3>1. CASE Top.fn = "setsig"
      <4>1. ~TopIs("despatch", "call") /\ ~TopIs("despatch", "handler")
        BY <3>1 DEF TopIs
      <4>2. blocked' = Top.save
        BY <1>7, <3>1, <4>1 DEF Unwind
      <4> QED
        BY <2>1, <3>1, <4>2, LeaveMask
    <3>2. CASE Top.fn = "despatch" /\ Holds(Top)
      <4>1. Top.fn # "setsig" /\ (TopIs("despatch", "call") \/ TopIs("despatch", "handler"))
        BY <2>1, <3>2 DEF Holds, TopIs
      <4>2. blocked' = Unblocked(Top)
        BY <1>7, <4>1 DEF Unwind
      <4> QED
        BY <2>1, <3>2, <4>2, LeaveMask
    <3>3. CASE ~Holds(Top)
      <4>1. /\ Top.fn # "setsig" /\ ~TopIs("despatch", "call")
            /\ ~TopIs("despatch", "handler")
        BY <3>3 DEF Holds, TopIs
      <4>2. blocked' = blocked
        BY <1>7, <4>1 DEF Unwind
      <4> QED
        BY <2>1, <3>3, <4>2, LeaveMask
    <3> QED
      BY <2>1, <3>1, <3>2, <3>3 DEF Frames, Loops, Setsigs, Holds
  <2> QED
    BY <2>1, <2>2, PopMask
<1>8. ASSUME NEW s \in Sigs, NEW new \in Settings \cup {"NULL"}, SetSigEnter(s, new)
      PROVE  MaskIsHeld'
  <2> DEFINE f == [fn |-> "setsig", sig |-> s, to |-> new,
                   save |-> blocked, at |-> "check"]
  <2>1. f \in Frames
    BY DEF Frames, Setsigs
  <2>2. f.fn = "setsig" /\ f.save = blocked /\ f.sig = s
    OBVIOUS
  <2>3. frames' = Append(frames, f) /\ blocked' = blocked \cup {s}
    BY <1>8 DEF SetSigEnter
  <2> HIDE DEF f
  <2>4. Holds(f) /\ Remembers(f, blocked)
    BY <2>2 DEF Holds, Remembers
  <2> QED
    BY <2>1, <2>2, <2>3, <2>4, PushMask
<1>9. CASE SetSigCheck
  <2> DEFINE f == [Top EXCEPT !.at = "change"]
  <2>1. frames # <<>> /\ Top.fn = "setsig" /\ Top \in Setsigs /\ blocked' = blocked
    BY <1>9, TopType DEF SetSigCheck, InC, TopIs, kernel
  <2>2. f \in Frames /\ f.fn = "setsig" /\ f.sig = Top.sig /\ f.save = Top.save
    BY <2>1 DEF Frames, Setsigs
  <2>3. \/ frames' = Append(Front(frames), f) \o <<NewLoop>>
        \/ SetTop(f)
    BY <1>9 DEF SetSigCheck
  <2> HIDE DEF f
  <2>4. CASE frames' = Append(Front(frames), f) \o <<NewLoop>>
    BY <1>l, <2>1, <2>2, <2>4, ReplacePushMask
  <2>5. CASE SetTop(f)
    <3>1. Holds(f) /\ Remembers(f, m) /\ blocked = m \cup {f.sig}
      BY <2>1, <2>2, LeaveMask DEF Holds, Remembers
    <3> QED
      BY <2>1, <2>2, <2>5, <3>1, SetTopMask
  <2> QED
    BY <2>3, <2>4, <2>5
<1>10. CASE SetSigChange
  <2>1. frames # <<>> /\ Top.fn = "setsig" /\ Pop /\ blocked' = Top.save
    BY <1>10 DEF SetSigChange, InC, TopIs
  <2> QED
    BY <2>1, LeaveMask, PopMask
<1>11. ASSUME NEW s \in Sigs, Kill(s) PROVE MaskIsHeld'
  BY <1>1, <1>11 DEF Kill
<1>12. CASE Die \/ Eval \/ DieUncaught \/ Fork \/ Destruct \/ UNCHANGED sig_vars
  BY <1>1, <1>12 DEF Die, Eval, DieUncaught, Fork, Destruct, kernel, sig_vars
<1> QED
  BY <1>2, <1>3, <1>4, <1>5, <1>6, <1>7, <1>8, <1>9, <1>10, <1>11, <1>12
  DEF SigNext, Despatch, SetSig

\* What is caught or taken off the kernel's hands was sent.
LEMMA SentStep == SigTypeOK /\ EachWasSent /\ [SigNext]_sig_vars => EachWasSent'
<1> SUFFICES ASSUME SigTypeOK, EachWasSent, [SigNext]_sig_vars PROVE EachWasSent'
  OBVIOUS
<1>0. /\ IsFiniteSet(kpending) /\ Cardinality(kpending) \in Nat
      /\ sig_pending \in Nat /\ kills \in Nat
      /\ sig_pending + Cardinality(kpending) <= kills
  BY FS_CardinalityType DEF EachWasSent, SigTypeOK
<1>1. ASSUME kpending' \subseteq kpending, sig_pending' \in {0, sig_pending}, kills' = kills
      PROVE  EachWasSent'
  <2>1. /\ IsFiniteSet(kpending') /\ Cardinality(kpending') \in Nat
        /\ Cardinality(kpending') <= Cardinality(kpending)
    BY <1>0, <1>1, FS_Subset, FS_CardinalityType
  <2> QED
    BY <1>0, <1>1, <2>1 DEF EachWasSent
<1>2. ASSUME NEW s \in Sigs, Kill(s) PROVE EachWasSent'
  <2>1. kills' = kills + 1 /\ sig_pending' = sig_pending /\ kpending' = kpending \cup {s}
    BY <1>2 DEF Kill, tables
  <2>2. /\ IsFiniteSet(kpending \cup {s})
        /\ Cardinality(kpending \cup {s}) \in {Cardinality(kpending), Cardinality(kpending) + 1}
    BY <1>0, FS_AddElement
  <2> QED
    BY <1>0, <2>1, <2>2 DEF EachWasSent
<1>3. ASSUME NEW s \in Sigs, Deliver(s) PROVE EachWasSent'
  <2>1. /\ kills' = kills /\ sig_pending' \in {sig_pending, sig_pending + 1}
        /\ kpending' = kpending \ {s} /\ s \in kpending
    BY <1>3 DEF Deliver, Catch
  <2>2. /\ IsFiniteSet(kpending \ {s})
        /\ Cardinality(kpending \ {s}) = Cardinality(kpending) - 1
    BY <1>0, <2>1, FS_RemoveElement
  <2> QED
    BY <1>0, <2>1, <2>2 DEF EachWasSent
<1>4. CASE Fork
  BY <1>1, <1>4 DEF Fork
<1>5. CASE SetSigChange
  BY <1>1, <1>5 DEF SetSigChange
<1>6. CASE \/ Despatch \/ HandlerReturn \/ Die \/ Eval \/ Unwind \/ DieUncaught
           \/ AsyncCheck \/ SetSigCheck \/ Destruct \/ UNCHANGED sig_vars
  BY <1>1, <1>6
  DEF Despatch, DespatchTest, DespatchBlock, DespatchCall, HandlerReturn, Die, Eval,
      Unwind, DieUncaught, AsyncCheck, SetSigCheck, Destruct, sig_vars, kernel, tables
<1>7. ASSUME NEW s \in Sigs, NEW new \in Settings \cup {"NULL"}, SetSigEnter(s, new)
      PROVE  EachWasSent'
  BY <1>1, <1>7 DEF SetSigEnter, tables
<1> QED
  BY <1>2, <1>3, <1>4, <1>5, <1>6, <1>7 DEF SigNext, SetSig

LEMMA NextMaskInv == SigTypeOK /\ MaskInv /\ [SigNext]_sig_vars => MaskInv'
<1> SUFFICES ASSUME SigTypeOK, MaskInv, [SigNext]_sig_vars, kills' < DieCount
             PROVE  MaskIsHeld'
  BY SentStep DEF MaskInv
<1>1. kills \in Nat /\ kills' \in {kills, kills + 1}
  BY DEF SigTypeOK, SigNext, Kill, Deliver, AsyncCheck, Despatch, DespatchTest, DespatchBlock,
     DespatchCall, HandlerReturn, Die, Eval, Unwind, DieUncaught, SetSigEnter, SetSig,
     SetSigCheck, SetSigChange, Fork, Destruct, sig_vars
<1>2. kills < DieCount /\ MaskIsHeld
  BY <1>1, SignalsAssumption DEF MaskInv
<1>3. ASSUME NEW s \in Sigs, Deliver(s) PROVE MaskIsHeld'
  <2>1. frames' = frames /\ s \in kpending /\ kills' = kills
    BY <1>3 DEF Deliver
  <2>2. sig_pending + 1 <= kills
    <3>1. Cardinality(kpending) >= 1 /\ Cardinality(kpending) \in Nat
      <4>1. IsFiniteSet(kpending) /\ kpending # {}
        BY <2>1 DEF MaskInv, EachWasSent
      <4> QED
        BY <4>1, FS_EmptySet, FS_CardinalityType
    <3> QED
      BY <1>1, <3>1 DEF MaskInv, EachWasSent, SigTypeOK
  <2>3. ~(sig_pending + 1 >= DieCount)
    BY <1>1, <1>2, <2>2, SignalsAssumption DEF SigTypeOK
  <2>4. blocked' = blocked
    BY <1>3, <2>3 DEF Deliver, Catch
  <2> QED
    BY <1>2, <2>1, <2>4 DEF MaskIsHeld
<1> QED
  BY <1>2, <1>3, MaskStep

\* The main program runs with the mask it started with: what handlers and
\* assignments to %SIG block, they unblock, however they are nested and also
\* when an exception leaves them, as long as the limit is not reached.
THEOREM MaskIsRestored == SigSpec => []MaskRestored
<1>1. SigInit => MaskInv
  BY HeldNothing, FS_EmptySet DEF SigInit, MaskInv, EachWasSent, MaskIsHeld
<1>2. MaskInv => MaskRestored
  <2> SUFFICES ASSUME MaskInv, frames = <<>>, kills < DieCount PROVE blocked = {}
    BY DEF MaskRestored
  <2> QED
    BY HeldNothing DEF MaskInv, MaskIsHeld
<1> QED
  BY <1>1, <1>2, TypeCorrect, NextMaskInv, PTL DEF SigSpec


-----------------------------------------------------------------------------
(* The readers/writer lock.                                                *)

\* What the program counters, the mutex and the wait queue have to do with
\* each other: it is what makes the three invariants inductive.
Bookkeeping ==
  /\ wakeup = {t \in RWThreads : at[t] = "waiting"}
  /\ \A t \in RWThreads : at[t] = "writing" <=> lock = t
  /\ lock # NoHolder => Readers = {}

RWInv == RWTypeOK /\ Bookkeeping /\ CountIsReaders /\ NoWriterForgotten

\* A set of threads has a size, and the size says whether it is empty.
LEMMA ReadersFinite ==
  IsFiniteSet(Readers) /\ Cardinality(Readers) \in Nat
  /\ (Cardinality(Readers) = 0 <=> Readers = {})
<1>1. IsFiniteSet(Readers)
  BY ThreadsAssumption, FS_Subset DEF Readers
<1> QED
  BY <1>1, FS_CardinalityType, FS_EmptySet

LEMMA ReadersFiniteNext ==
  IsFiniteSet(Readers') /\ Cardinality(Readers') \in Nat
  /\ (Cardinality(Readers') = 0 <=> Readers' = {})
<1>1. IsFiniteSet(Readers')
  BY ThreadsAssumption, FS_Subset DEF Readers
<1> QED
  BY <1>1, FS_CardinalityType, FS_EmptySet

LEMMA InitRWInv == RWInit => RWInv
<1> SUFFICES ASSUME RWInit PROVE RWInv
  OBVIOUS
<1>1. Readers = {}
  BY DEF RWInit, Readers
<1>2. CountIsReaders
  BY <1>1, FS_EmptySet DEF RWInit, CountIsReaders
<1>3. RWTypeOK /\ Bookkeeping /\ NoWriterForgotten
  BY <1>1, ThreadsAssumption DEF RWInit, RWTypeOK, Bookkeeping, NoWriterForgotten, RWPlaces
<1> QED
  BY <1>2, <1>3 DEF RWInv

\* The two ways COND_SIGNAL goes, with what they leave of the queue.
LEMMA SignalStep ==
  ASSUME RWTypeOK, Bookkeeping,
         NEW t \in RWThreads, at[t] \in {"reading", "writing"},
         Signal([at EXCEPT ![t] = "idle"])
  PROVE  /\ at' \in [RWThreads -> RWPlaces]
         /\ wakeup' \in SUBSET RWThreads
         /\ wakeup' = {u \in RWThreads : at'[u] = "waiting"}
         /\ at'[t] = "idle"
         /\ \A u \in RWThreads \ {t} :
              at'[u] = at[u] \/ (at[u] = "waiting" /\ at'[u] = "woken")
         /\ wakeup' # {} => \E u \in RWThreads : at'[u] = "woken"
<1>1. CASE wakeup = {} /\ at' = [at EXCEPT ![t] = "idle"] /\ UNCHANGED wakeup
  BY <1>1 DEF RWTypeOK, Bookkeeping, RWPlaces
<1>2. CASE \E w \in wakeup : /\ wakeup' = wakeup \ {w}
                             /\ at' = [[at EXCEPT ![t] = "idle"] EXCEPT ![w] = "woken"]
  <2>1. PICK w \in wakeup : /\ wakeup' = wakeup \ {w}
                            /\ at' = [[at EXCEPT ![t] = "idle"] EXCEPT ![w] = "woken"]
    BY <1>2
  <2>2. w \in RWThreads /\ w # t /\ at[w] = "waiting"
    BY <2>1 DEF Bookkeeping
  <2> QED
    BY <2>1, <2>2 DEF RWTypeOK, Bookkeeping, RWPlaces
<1> QED
  BY <1>1, <1>2 DEF Signal

LEMMA NextRWInv == RWInv /\ [RWNext]_rw_vars => RWInv'
<1> SUFFICES ASSUME RWInv, [RWNext]_rw_vars PROVE RWInv'
  OBVIOUS
<1> USE DEF RWInv
<1>1. ASSUME NEW t \in RWThreads, ReadLock(t) PROVE RWInv'
  <2>1. Readers' = Readers \cup {t} /\ t \notin Readers
    BY <1>1 DEF ReadLock, Readers, RWTypeOK
  <2>2. Cardinality(Readers') = Cardinality(Readers) + 1
    BY <2>1, ReadersFinite, FS_AddElement
  <2>3. CountIsReaders'
    BY <1>1, <2>2 DEF ReadLock, CountIsReaders
  <2>4. RWTypeOK' /\ Bookkeeping' /\ NoWriterForgotten'
    BY <1>1, <2>1, ThreadsAssumption
    DEF ReadLock, RWTypeOK, Bookkeeping, NoWriterForgotten, RWPlaces
  <2> QED
    BY <2>3, <2>4
<1>2. ASSUME NEW t \in RWThreads, ReadUnlock(t) PROVE RWInv'
  <2>0. at[t] = "reading" /\ lock = NoHolder /\ lock' = NoHolder
    BY <1>2 DEF ReadUnlock
  <2>1. t \in Readers
    BY <2>0 DEF Readers
  <2>2. ASSUME Readers' = Readers \ {t}
        PROVE  Cardinality(Readers') = readers_count - 1 /\ readers_count \in Nat
    BY <2>1, <2>2, ReadersFinite, FS_RemoveElement DEF CountIsReaders
  <2>3. CASE readers_count - 1 <= 0
    <3>1. readers_count' = 0 /\ Signal([at EXCEPT ![t] = "idle"])
      BY <1>2, <2>3 DEF ReadUnlock
    <3>2. /\ at' \in [RWThreads -> RWPlaces] /\ wakeup' \in SUBSET RWThreads
          /\ wakeup' = {u \in RWThreads : at'[u] = "waiting"}
          /\ at'[t] = "idle"
          /\ \A u \in RWThreads \ {t} :
               at'[u] = at[u] \/ (at[u] = "waiting" /\ at'[u] = "woken")
          /\ wakeup' # {} => \E u \in RWThreads : at'[u] = "woken"
      BY <3>1, <2>0, SignalStep
    <3>3. Readers' = Readers \ {t}
      BY <3>2, <2>0 DEF Readers
    <3>4. CountIsReaders'
      BY <3>1, <3>3, <2>2, <2>3, ReadersFiniteNext DEF CountIsReaders
    <3>5. RWTypeOK' /\ Bookkeeping' /\ NoWriterForgotten'
      BY <3>1, <3>2, <2>0, ThreadsAssumption DEF RWTypeOK, Bookkeeping, NoWriterForgotten
    <3> QED
      BY <3>4, <3>5
  <2>4. CASE ~(readers_count - 1 <= 0)
    <3>1. /\ readers_count' = readers_count - 1
          /\ at' = [at EXCEPT ![t] = "idle"]
          /\ UNCHANGED <<wakeup, lock>>
      BY <1>2, <2>4 DEF ReadUnlock
    <3>2. Readers' = Readers \ {t}
      BY <3>1, <2>0 DEF Readers, RWTypeOK
    <3>3. CountIsReaders' /\ Readers' # {}
      BY <3>1, <3>2, <2>2, <2>4, ReadersFiniteNext DEF CountIsReaders
    <3>4. RWTypeOK' /\ Bookkeeping' /\ NoWriterForgotten'
      BY <3>1, <3>2, <3>3, <2>0, <2>2, <2>4, ThreadsAssumption
      DEF RWTypeOK, Bookkeeping, NoWriterForgotten, RWPlaces
    <3> QED
      BY <3>3, <3>4
  <2> QED
    BY <2>3, <2>4
<1>3. ASSUME NEW t \in RWThreads, at[t] \in {"idle", "woken"}, lock = NoHolder,
             WriteLockLoop(t)
      PROVE  RWInv'
  <2>1. Readers' = Readers
    BY <1>3 DEF WriteLockLoop, Readers, RWTypeOK
  <2>2. CASE readers_count <= 0
    <3>1. Readers = {} /\ readers_count = 0
      BY <2>2, ReadersFinite DEF CountIsReaders
    <3>2. /\ readers_count' = 0 /\ lock' = t
          /\ at' = [at EXCEPT ![t] = "writing"] /\ UNCHANGED wakeup
      BY <1>3, <2>2, <3>1 DEF WriteLockLoop
    <3>3. CountIsReaders'
      BY <2>1, <3>1, <3>2, ReadersFinite DEF CountIsReaders
    <3>4. RWTypeOK' /\ Bookkeeping' /\ NoWriterForgotten'
      BY <1>3, <2>1, <3>1, <3>2, ThreadsAssumption
      DEF RWTypeOK, Bookkeeping, NoWriterForgotten, Writers, RWPlaces
    <3> QED
      BY <3>3, <3>4
  <2>3. CASE readers_count > 0
    <3>1. Readers # {}
      BY <2>3, ReadersFinite DEF CountIsReaders
    <3>2. /\ wakeup' = wakeup \cup {t} /\ at' = [at EXCEPT ![t] = "waiting"]
          /\ UNCHANGED <<lock, readers_count>>
      BY <1>3, <2>3 DEF WriteLockLoop, RWTypeOK
    <3>3. CountIsReaders'
      BY <2>1, <3>2 DEF CountIsReaders
    <3>4. RWTypeOK' /\ Bookkeeping' /\ NoWriterForgotten'
      BY <1>3, <2>1, <3>1, <3>2, ThreadsAssumption
      DEF RWTypeOK, Bookkeeping, NoWriterForgotten, RWPlaces
    <3> QED
      BY <3>3, <3>4
  <2> QED
    BY <2>2, <2>3, <1>3 DEF RWTypeOK
<1>4. ASSUME NEW t \in RWThreads, WriteUnlock(t) PROVE RWInv'
  <2>1. /\ at[t] = "writing" /\ lock' = NoHolder /\ readers_count' = readers_count
        /\ Signal([at EXCEPT ![t] = "idle"])
    BY <1>4 DEF WriteUnlock
  <2>2. /\ at' \in [RWThreads -> RWPlaces] /\ wakeup' \in SUBSET RWThreads
        /\ wakeup' = {u \in RWThreads : at'[u] = "waiting"}
        /\ at'[t] = "idle"
        /\ \A u \in RWThreads \ {t} :
             at'[u] = at[u] \/ (at[u] = "waiting" /\ at'[u] = "woken")
        /\ wakeup' # {} => \E u \in RWThreads : at'[u] = "woken"
    BY <2>1, SignalStep
  <2>3. Readers' = Readers
    BY <2>1, <2>2 DEF Readers
  <2>4. CountIsReaders'
    BY <2>1, <2>3 DEF CountIsReaders
  <2>5. lock = t
    BY <2>1 DEF Bookkeeping
  <2>6. RWTypeOK' /\ Bookkeeping' /\ NoWriterForgotten'
    BY <2>1, <2>2, <2>5, ThreadsAssumption DEF RWTypeOK, Bookkeeping, NoWriterForgotten
  <2> QED
    BY <2>4, <2>6
<1>5. ASSUME NEW t \in RWThreads, RWSpuriousWakeup(t) PROVE RWInv'
  <2>1. /\ at[t] = "waiting" /\ wakeup' = wakeup \ {t}
        /\ at' = [at EXCEPT ![t] = "woken"] /\ UNCHANGED <<lock, readers_count>>
    BY <1>5 DEF RWSpuriousWakeup, Bookkeeping
  <2>2. Readers' = Readers
    BY <2>1 DEF Readers, RWTypeOK
  <2>3. CountIsReaders'
    BY <2>1, <2>2 DEF CountIsReaders
  <2>4. RWTypeOK' /\ Bookkeeping' /\ NoWriterForgotten'
    BY <2>1, <2>2, ThreadsAssumption
    DEF RWTypeOK, Bookkeeping, NoWriterForgotten, RWPlaces
  <2> QED
    BY <2>3, <2>4
<1>6. ASSUME UNCHANGED rw_vars PROVE RWInv'
  BY <1>6 DEF rw_vars, RWTypeOK, Bookkeeping, CountIsReaders, NoWriterForgotten,
              Readers, Writers
<1>7. ASSUME NEW t \in RWThreads, RWStep(t) PROVE RWInv'
  <2>1. CASE WriteLock(t)
    BY <2>1, <1>3 DEF WriteLock
  <2>2. CASE WriteRelock(t)
    BY <2>2, <1>3 DEF WriteRelock
  <2> QED
    BY <1>1, <1>2, <1>4, <1>5, <1>7, <2>1, <2>2 DEF RWStep
<1> QED
  BY <1>6, <1>7 DEF RWNext

THEOREM AlwaysRWInv == RWSpec => []RWInv
<1> QED
  BY InitRWInv, NextRWInv, PTL DEF RWSpec

\* In every behaviour the variables stay in their types: the counter of
\* readers is an integer, and a thread is at one of the five places.
THEOREM EnvLockTypes == RWSpec => []RWTypeOK
<1>1. RWInv => RWTypeOK
  BY DEF RWInv
<1> QED
  BY <1>1, AlwaysRWInv, PTL

\* A writer inside PERL_WRITE_LOCK .. PERL_WRITE_UNLOCK is alone, however
\* many threads take the lock and whatever wake-ups the system delivers.
THEOREM WriterIsAlone == RWSpec => []WriterExcludesAll
<1>1. RWInv => WriterExcludesAll
  BY ThreadsAssumption DEF RWInv, Bookkeeping, WriterExcludesAll, Writers
<1> QED
  BY <1>1, AlwaysRWInv, PTL

\* readers_count is exactly the number of readers inside.
THEOREM ReadersAreCounted == RWSpec => []CountIsReaders
<1>1. RWInv => CountIsReaders
  BY DEF RWInv
<1> QED
  BY <1>1, AlwaysRWInv, PTL

\* No writer is left in COND_WAIT with nobody to wake it.
THEOREM NoWriterIsForgotten == RWSpec => []NoWriterForgotten
<1>1. RWInv => NoWriterForgotten
  BY DEF RWInv
<1> QED
  BY <1>1, AlwaysRWInv, PTL

-----------------------------------------------------------------------------
(* The lock of a shared variable.                                          *)

\* Where a thread is tells what it holds.  The owner runs; a thread that runs
\* inside a scope is the owner; one that is still asking for the lock has no
\* scope; one that waits has some, and its own copy of their number; and a
\* panic keeps the mutex from everybody while nobody owns the lock.
Places_OK ==
  /\ owner # None => pc[owner] = "run"
  /\ \A t \in Threads :
       /\ pc[t] = "run" /\ scopes[t] > 0 => owner = t
       /\ pc[t] = "acquire" => scopes[t] = 0
       /\ pc[t] \in {"wait", "reacquire"} => saved[t] > 0
       /\ pc[t] = "panic" => mutex = t
  /\ mutex # None => owner = None
  /\ condWait = {t \in Threads : pc[t] = "wait"}
  /\ lockWait \subseteq Contenders

LockInv == TypeOK /\ Places_OK /\ CountIsScopes /\ NoLostWakeup

LEMMA InitLockInv == Init => LockInv
  BY LockAssumption
  DEF Init, LockInv, TypeOK, Places, Places_OK, CountIsScopes, NoLostWakeup, Contenders

\* COND_SIGNAL only takes threads out of the queue, and takes one if it can.
LEMMA SignalLockStep ==
  ASSUME SignalLock
  PROVE  /\ lockWait' \subseteq lockWait
         /\ lockWait' # {} => \E w \in lockWait : w \notin lockWait'
  BY DEF SignalLock

LEMMA AcquireLoopStep ==
  ASSUME LockInv, NEW t \in Threads, pc[t] \in {"run", "acquire"}, owner # t,
         t \notin lockWait, mutex = None, AcquireLoop(t)
  PROVE  LockInv'
<1> USE DEF LockInv
<1>0. scopes[t] = 0
  BY DEF TypeOK, Places_OK
<1>1. CASE /\ owner = None
           /\ locks' = 1
           /\ owner' = t
           /\ scopes' = [scopes EXCEPT ![t] = @ + 1]
           /\ pc' = [pc EXCEPT ![t] = "run"]
           /\ UNCHANGED <<mutex, lockWait, condWait, saved>>
  <2>1. TypeOK'
    BY <1>1 DEF TypeOK, Places
  <2>2. Places_OK'
    BY <1>0, <1>1, LockAssumption DEF TypeOK, Places, Places_OK, Contenders
  <2>3. CountIsScopes'
    BY <1>0, <1>1 DEF TypeOK, Places, CountIsScopes
  <2>4. NoLostWakeup'
    BY <1>1, LockAssumption DEF NoLostWakeup
  <2> QED
    BY <2>1, <2>2, <2>3, <2>4
<1>2. CASE /\ owner # None
           /\ lockWait' = lockWait \cup {t}
           /\ pc' = [pc EXCEPT ![t] = "acquire"]
           /\ UNCHANGED <<mutex, owner, locks, condWait, saved, scopes>>
  <2>1. TypeOK'
    BY <1>2 DEF TypeOK, Places
  <2>2. Places_OK'
    BY <1>0, <1>2 DEF TypeOK, Places, Places_OK, Contenders
  <2>3. CountIsScopes'
    BY <1>2 DEF TypeOK, Places, CountIsScopes
  <2>4. NoLostWakeup'
    BY <1>2 DEF NoLostWakeup
  <2> QED
    BY <2>1, <2>2, <2>3, <2>4
<1> QED
  BY <1>1, <1>2 DEF AcquireLoop

LEMMA WakeWaitersStep ==
  ASSUME LockInv, NEW S, S \subseteq condWait, WakeWaiters(S)
  PROVE  LockInv'
<1> USE DEF LockInv, WakeWaiters
<1>1. \A t \in Threads : /\ t \in S => pc[t] = "wait" /\ pc'[t] = "reacquire"
                         /\ t \notin S => pc'[t] = pc[t]
  BY DEF Places_OK
<1>2. TypeOK'
  BY DEF TypeOK, Places
<1>3. Places_OK'
  <2>1. owner # None => pc'[owner] = "run"
    BY <1>1 DEF TypeOK, Places_OK
  <2>2. lockWait' \subseteq Contenders'
    BY <1>1 DEF Places_OK, Contenders
  <2>3. condWait' = {t \in Threads : pc'[t] = "wait"}
    BY <1>1 DEF Places_OK
  <2> QED
    BY <1>1, <2>1, <2>2, <2>3 DEF TypeOK, Places_OK
<1>4. CountIsScopes'
  BY <1>1 DEF CountIsScopes
<1>5. NoLostWakeup'
  BY <1>1 DEF NoLostWakeup, Contenders
<1> QED
  BY <1>2, <1>3, <1>4, <1>5

\* The owner gives the lock up for a wait, or in a panic.
LEMMA GiveUpStep ==
  ASSUME LockInv, NEW t \in Threads, pc[t] = "run", owner = t, owner' = None,
         saved' = [saved EXCEPT ![t] = locks], locks' = 0, SignalLock,
         scopes' = scopes,
         NEW place \in {"wait", "panic"}, pc' = [pc EXCEPT ![t] = place],
         condWait' = condWait \cup (IF place = "wait" THEN {t} ELSE {}),
         mutex = None, mutex' = IF place = "wait" THEN None ELSE t
  PROVE  LockInv'
<1> USE DEF LockInv
<1>0. t # None
  BY LockAssumption
<1>1. TypeOK'
  BY SignalLockStep DEF TypeOK, Places
<1>2. Places_OK'
  <2>1. /\ locks > 0
        /\ saved'[t] = locks /\ pc'[t] = place
        /\ \A u \in Threads \ {t} : saved'[u] = saved[u] /\ pc'[u] = pc[u]
    BY <1>0 DEF TypeOK, CountIsScopes
  <2>2. condWait' = {u \in Threads : pc'[u] = "wait"}
    <3>1. CASE place = "wait"
      BY <2>1, <3>1 DEF Places_OK
    <3>2. CASE place = "panic"
      BY <2>1, <3>2 DEF Places_OK
    <3> QED
      BY <3>1, <3>2
  <2>3. lockWait' \subseteq Contenders'
    BY <2>1, SignalLockStep DEF Places_OK, Contenders
  <2>4. \A u \in Threads :
          /\ pc'[u] = "run" /\ scopes'[u] > 0 => owner' = u
          /\ pc'[u] = "acquire" => scopes'[u] = 0
          /\ pc'[u] \in {"wait", "reacquire"} => saved'[u] > 0
          /\ pc'[u] = "panic" => mutex' = u
    BY <1>0, <2>1, LockAssumption DEF TypeOK, Places_OK
  <2> QED
    BY <2>2, <2>3, <2>4 DEF Places_OK
<1>3. CountIsScopes'
  BY <1>0 DEF TypeOK, Places, CountIsScopes
<1>4. NoLostWakeup'
  BY <1>0, SignalLockStep DEF TypeOK, Places_OK, NoLostWakeup, Contenders
<1> QED
  BY <1>1, <1>2, <1>3, <1>4

LEMMA NextLockInv == LockInv /\ [Next]_vars => LockInv'
<1> SUFFICES ASSUME LockInv, [Next]_vars PROVE LockInv'
  OBVIOUS
<1>1. ASSUME NEW t \in Threads, Lock(t) PROVE LockInv'
  <2>1. CASE owner # t
    <3>1. t \notin lockWait
      BY <1>1 DEF Lock, LockInv, Places_OK, Contenders
    <3> QED
      BY <1>1, <2>1, <3>1, AcquireLoopStep DEF Lock
  <2>2. CASE /\ owner = t
             /\ locks' = locks + 1
             /\ scopes' = [scopes EXCEPT ![t] = @ + 1]
             /\ UNCHANGED <<mutex, owner, lockWait, condWait, saved, pc>>
    BY <1>1, <2>2
    DEF LockInv, TypeOK, Places, Places_OK, Contenders, CountIsScopes, NoLostWakeup, Lock
  <2> QED
    BY <1>1, <2>1, <2>2 DEF Lock
<1>2. ASSUME NEW t \in Threads, LockAgain(t) PROVE LockInv'
  <2>1. owner # t
    BY <1>2, LockAssumption DEF LockAgain, LockInv, Places_OK
  <2> QED
    BY <1>2, <2>1, AcquireLoopStep DEF LockAgain
<1>3. ASSUME NEW t \in Threads, Unlock(t) PROVE LockInv'
  <2> USE <1>3 DEF LockInv
  <2>0. /\ pc[t] = "run" /\ mutex = None /\ owner = t /\ t # None
        /\ scopes' = [scopes EXCEPT ![t] = @ - 1]
        /\ UNCHANGED <<mutex, condWait, saved, pc>>
    BY LockAssumption DEF Unlock, TypeOK, Places_OK
  <2>1. CASE locks = 1 /\ locks' = 0 /\ owner' = None /\ SignalLock
    <3>1. TypeOK'
      BY <2>0, <2>1, SignalLockStep DEF TypeOK, Unlock
    <3>2. Places_OK'
      BY <2>0, <2>1, SignalLockStep
      DEF TypeOK, Places_OK, Contenders, CountIsScopes
    <3>3. CountIsScopes'
      BY <2>0, <2>1 DEF TypeOK, CountIsScopes
    <3>4. NoLostWakeup'
      BY <2>0, <2>1, SignalLockStep DEF TypeOK, Places_OK, NoLostWakeup, Contenders
    <3> QED
      BY <3>1, <3>2, <3>3, <3>4
  <2>2. CASE locks # 1 /\ locks' = locks - 1 /\ UNCHANGED <<owner, lockWait>>
    BY <2>0, <2>2 DEF TypeOK, Places_OK, Contenders, CountIsScopes, NoLostWakeup
  <2> QED
    BY <2>0, <2>1, <2>2 DEF Unlock
<1>4. ASSUME NEW t \in Threads, CondWait(t) PROVE LockInv'
  BY <1>4, GiveUpStep DEF CondWait
<1>5. ASSUME NEW t \in Threads, TimedwaitPanic(t) PROVE LockInv'
  BY <1>5, GiveUpStep DEF TimedwaitPanic
<1>6. ASSUME NEW t \in Threads, Reacquire(t) PROVE LockInv'
  <2> USE <1>6 DEF LockInv
  <2>1. CASE /\ owner = None
             /\ owner' = t
             /\ locks' = saved[t]
             /\ pc' = [pc EXCEPT ![t] = "run"]
             /\ UNCHANGED lockWait
    <3>1. TypeOK'
      BY <2>1 DEF Reacquire, TypeOK, Places
    <3>2. Places_OK'
      BY <2>1, LockAssumption
      DEF Reacquire, TypeOK, Places, Places_OK, Contenders, CountIsScopes
    <3>3. CountIsScopes'
      BY <2>1 DEF Reacquire, TypeOK, Places, Places_OK, CountIsScopes
    <3>4. NoLostWakeup'
      BY <2>1, LockAssumption DEF NoLostWakeup
    <3> QED
      BY <3>1, <3>2, <3>3, <3>4
  <2>2. CASE /\ owner # None
             /\ lockWait' = lockWait \cup {t}
             /\ UNCHANGED <<owner, locks, pc>>
    BY <2>2
    DEF Reacquire, TypeOK, Places_OK, Contenders, CountIsScopes, NoLostWakeup
  <2> QED
    BY <2>1, <2>2 DEF Reacquire
<1>7. ASSUME NEW t \in Threads, CondSignal(t) PROVE LockInv'
  BY <1>7, WakeWaitersStep DEF CondSignal
<1>8. ASSUME NEW t \in Threads, CondBroadcast(t) PROVE LockInv'
  BY <1>8, WakeWaitersStep DEF CondBroadcast
<1>9. ASSUME NEW t \in Threads, Timeout(t) PROVE LockInv'
  BY <1>9, WakeWaitersStep DEF Timeout
<1>10. ASSUME NEW t \in Threads, SpuriousWakeup(t) PROVE LockInv'
  BY <1>10
  DEF SpuriousWakeup, LockInv, TypeOK, Places_OK, Contenders, CountIsScopes, NoLostWakeup
<1>11. CASE UNCHANGED vars
  BY <1>11
  DEF vars, LockInv, TypeOK, Places_OK, Contenders, CountIsScopes, NoLostWakeup
<1> QED
  BY <1>1, <1>2, <1>3, <1>4, <1>5, <1>6, <1>7, <1>8, <1>9, <1>10, <1>11
  DEF Next, Step

THEOREM AlwaysLockInv == Spec => []LockInv
  BY InitLockInv, NextLockInv, PTL DEF Spec

\* Every variable keeps its type: no count ever goes below zero.
THEOREM SharedLockTypes == Spec => []TypeOK
<1>1. LockInv => TypeOK
  BY DEF LockInv
<1> QED
  BY <1>1, AlwaysLockInv, PTL

\* The count of recursive_lock_acquire() is the number of scopes its owner
\* still has to leave, also across the hand-made release of cond_wait().
THEOREM ScopesAreCounted == Spec => []CountIsScopes
<1>1. LockInv => CountIsScopes
  BY DEF LockInv
<1> QED
  BY <1>1, AlwaysLockInv, PTL

\* While nobody owns the lock, the threads asleep on its condition variable
\* are not all of those that want it.
THEOREM NoWakeupIsLost == Spec => []NoLostWakeup
<1>1. LockInv => NoLostWakeup
  BY DEF LockInv
<1> QED
  BY <1>1, AlwaysLockInv, PTL

\* Only one thread is ever active inside a lock() scope of the variable.
THEOREM Excludes == Spec => []MutualExclusion
<1>1. LockInv => MutualExclusion
  <2> SUFFICES ASSUME LockInv,
                      NEW t \in Threads, scopes[t] > 0, pc[t] \notin {"wait", "reacquire"},
                      NEW u \in Threads, scopes[u] > 0, pc[u] \notin {"wait", "reacquire"}
               PROVE  t = u
    BY DEF MutualExclusion
  <2>1. pc[t] \in {"run", "panic"} /\ pc[u] \in {"run", "panic"}
    BY DEF LockInv, TypeOK, Places, Places_OK
  <2> QED
    BY <2>1, LockAssumption DEF LockInv, Places_OK
<1> QED
  BY <1>1, AlwaysLockInv, PTL

-----------------------------------------------------------------------------
(* The refinement.                                                         *)

\* The monitor's "mode" as the lock's program counters give it.
Mode == [t \in Threads |-> AbstractMode(t)]

\* A step that changes only the lock's own queue is a stutter of the monitor.
LEMMA StutterStep ==
  ASSUME pc' = pc, owner' = owner, scopes' = scopes
  PROVE  UNCHANGED <<owner, scopes, Mode>>
  BY DEF Mode, AbstractMode

LEMMA AcquireLoopImplements ==
  ASSUME LockInv, NEW t \in Threads, pc[t] \in {"run", "acquire"}, owner # t,
         AcquireLoop(t)
  PROVE  M!Next \/ UNCHANGED <<owner, scopes, Mode>>
<1>1. CASE owner = None /\ owner' = t /\ scopes' = [scopes EXCEPT ![t] = @ + 1]
           /\ pc' = [pc EXCEPT ![t] = "run"]
  <2>1. Mode' = Mode /\ Mode[t] = "run"
    BY <1>1 DEF Mode, AbstractMode, LockInv, TypeOK
  <2>2. M!Acquire(t)
    BY <1>1, <2>1 DEF M!Acquire, Mode
  <2> QED
    BY <2>1, <2>2 DEF M!Next, Mode
<1>2. CASE UNCHANGED <<owner, scopes>> /\ pc' = [pc EXCEPT ![t] = "acquire"]
  BY <1>2 DEF Mode, AbstractMode, LockInv, TypeOK
<1> QED
  BY <1>1, <1>2 DEF AcquireLoop

LEMMA WakeWaitersImplements ==
  ASSUME LockInv, NEW S, S \subseteq condWait, WakeWaiters(S)
  PROVE  M!Next
<1>1. S \subseteq Threads /\ \A t \in S : pc[t] = "wait"
  BY DEF LockInv, Places_OK
<1>2. S \subseteq M!Waiting
  BY <1>1 DEF M!Waiting, AbstractMode
<1>3. Mode' = [t \in Threads |-> IF t \in S THEN "resuming" ELSE Mode[t]]
  BY <1>1 DEF WakeWaiters, Mode, AbstractMode
<1>4. M!Wake(S) /\ UNCHANGED <<owner, scopes>>
  BY <1>2, <1>3 DEF M!Wake, WakeWaiters, Mode
<1> QED
  BY <1>1, <1>4 DEF M!Next

\* The owner gives the lock up for a wait, or in a panic.
LEMMA GiveUpImplements ==
  ASSUME LockInv, NEW t \in Threads, pc[t] = "run", owner = t, owner' = None,
         scopes' = scopes,
         NEW place \in {"wait", "panic"}, pc' = [pc EXCEPT ![t] = place]
  PROVE  M!Next
<1>1. Mode[t] = "run" /\ Mode' = [Mode EXCEPT ![t] = "waiting"]
  BY DEF Mode, AbstractMode, LockInv, TypeOK
<1>2. M!Wait(t)
  BY <1>1 DEF M!Wait, Mode
<1> QED
  BY <1>2 DEF M!Next

LEMMA StepImplements ==
  LockInv /\ [Next]_vars => M!Next \/ UNCHANGED <<owner, scopes, Mode>>
<1> SUFFICES ASSUME LockInv, [Next]_vars
             PROVE  M!Next \/ UNCHANGED <<owner, scopes, Mode>>
  OBVIOUS
<1>1. ASSUME NEW t \in Threads, Lock(t)
      PROVE  M!Next \/ UNCHANGED <<owner, scopes, Mode>>
  <2>1. CASE owner # t
    BY <1>1, <2>1, AcquireLoopImplements DEF Lock
  <2>2. CASE owner = t /\ owner' = t /\ pc' = pc
             /\ scopes' = [scopes EXCEPT ![t] = @ + 1]
    <3>1. Mode' = Mode /\ Mode[t] = "run"
      BY <1>1, <2>2 DEF Lock, Mode, AbstractMode
    <3>2. M!Acquire(t)
      BY <2>2, <3>1 DEF M!Acquire, Mode
    <3> QED
      BY <3>1, <3>2 DEF M!Next, Mode
  <2> QED
    BY <1>1, <2>1, <2>2 DEF Lock
<1>2. ASSUME NEW t \in Threads, LockAgain(t)
      PROVE  M!Next \/ UNCHANGED <<owner, scopes, Mode>>
  <2>1. owner # t
    BY <1>2, LockAssumption DEF LockAgain, LockInv, Places_OK
  <2> QED
    BY <1>2, <2>1, AcquireLoopImplements DEF LockAgain
<1>3. ASSUME NEW t \in Threads, Unlock(t) PROVE M!Next
  <2>1. owner = t /\ locks = scopes[t] /\ pc[t] = "run"
    BY <1>3, LockAssumption
    DEF Unlock, LockInv, TypeOK, Places_OK, CountIsScopes
  <2>2. Mode' = Mode /\ Mode[t] = "run"
    BY <1>3, <2>1 DEF Unlock, Mode, AbstractMode
  <2>3. M!Release(t)
    BY <1>3, <2>1, <2>2 DEF Unlock, M!Release, Mode
  <2> QED
    BY <2>2, <2>3 DEF M!Next, Mode
<1>4. ASSUME NEW t \in Threads, CondWait(t) PROVE M!Next
  BY <1>4, GiveUpImplements DEF CondWait
<1>5. ASSUME NEW t \in Threads, TimedwaitPanic(t) PROVE M!Next
  BY <1>5, GiveUpImplements DEF TimedwaitPanic
<1>6. ASSUME NEW t \in Threads, Reacquire(t)
      PROVE  M!Next \/ UNCHANGED <<owner, scopes, Mode>>
  <2>1. CASE owner = None /\ owner' = t /\ pc' = [pc EXCEPT ![t] = "run"]
    <3>1. Mode[t] = "resuming" /\ Mode' = [Mode EXCEPT ![t] = "run"]
      BY <1>6, <2>1 DEF Reacquire, Mode, AbstractMode, LockInv, TypeOK
    <3>2. M!Resume(t)
      BY <1>6, <2>1, <3>1 DEF Reacquire, M!Resume, Mode
    <3> QED
      BY <3>2 DEF M!Next
  <2>2. CASE UNCHANGED <<owner, pc>>
    BY <1>6, <2>2, StutterStep DEF Reacquire
  <2> QED
    BY <1>6, <2>1, <2>2 DEF Reacquire
<1>7. ASSUME NEW t \in Threads, CondSignal(t) PROVE M!Next
  BY <1>7, WakeWaitersImplements DEF CondSignal
<1>8. ASSUME NEW t \in Threads, CondBroadcast(t) PROVE M!Next
  BY <1>8, WakeWaitersImplements DEF CondBroadcast
<1>9. ASSUME NEW t \in Threads, Timeout(t) PROVE M!Next
  BY <1>9, WakeWaitersImplements DEF Timeout
<1>10. ASSUME NEW t \in Threads, SpuriousWakeup(t)
       PROVE  UNCHANGED <<owner, scopes, Mode>>
  BY <1>10, StutterStep DEF SpuriousWakeup
<1>11. CASE UNCHANGED vars
  BY <1>11, StutterStep DEF vars
<1> QED
  BY <1>1, <1>2, <1>3, <1>4, <1>5, <1>6, <1>7, <1>8, <1>9, <1>10, <1>11
  DEF Next, Step

\* The recursive lock with its hand-made release in cond_wait() is the monitor
\* that lib/threads/shared.pm describes.
THEOREM Implements == Spec => ImplementsMonitor
<1>1. Init => M!Init
  BY DEF Init, M!Init, AbstractMode
<1>2. LockInv /\ [Next]_vars => [M!Next]_<<owner, scopes, Mode>>
  BY StepImplements
<1>3. [M!Next]_<<owner, scopes, Mode>> <=> [M!Next]_(M!monitor)
  BY DEF M!monitor, Mode
<1> QED
  BY <1>1, <1>2, <1>3, AlwaysLockInv, PTL DEF Spec, ImplementsMonitor, M!Spec

-----------------------------------------------------------------------------
(* Side by side.                                                           *)

\* What one of the three does leaves the others as they are.
LEMMA RestKeeps ==
  /\ RWInv /\ UNCHANGED rw_vars => RWInv'
  /\ LockInv /\ UNCHANGED vars => LockInv'
  /\ IInv /\ UNCHANGED sig_vars => IInv'
<1>1. RWInv /\ UNCHANGED rw_vars => RWInv'
  BY NextRWInv
<1>2. LockInv /\ UNCHANGED vars => LockInv'
  BY NextLockInv
<1>3. IInv /\ UNCHANGED sig_vars => IInv'
  BY NextIInv
<1> QED
  BY <1>1, <1>2, <1>3

\* In the specification that the run checks, each of the two locks and the
\* signals have their types, whichever is used.
THEOREM TypesAreKept == MCSpec => []TypesOK
<1>1. MCInit => RWInv /\ LockInv /\ IInv
  BY InitRWInv, InitLockInv, InitIInv DEF MCInit
<1>2. RWInv /\ LockInv /\ IInv /\ [MCNext]_mc_vars => (RWInv /\ LockInv /\ IInv)'
  <2> SUFFICES ASSUME RWInv, LockInv, IInv, [MCNext]_mc_vars
               PROVE  RWInv' /\ LockInv' /\ IInv'
    OBVIOUS
  <2>1. CASE RWNext /\ UNCHANGED <<vars, sig_vars>>
    BY <2>1, NextRWInv, RestKeeps
  <2>2. CASE Next /\ UNCHANGED <<rw_vars, sig_vars>>
    BY <2>2, NextLockInv, RestKeeps
  <2>3. CASE SigNext /\ UNCHANGED <<rw_vars, vars>>
    BY <2>3, NextIInv, RestKeeps
  <2>4. CASE UNCHANGED mc_vars
    BY <2>4, RestKeeps DEF mc_vars
  <2> QED
    BY <2>1, <2>2, <2>3, <2>4 DEF MCNext
<1>3. RWInv /\ LockInv /\ IInv => TypesOK
  BY DEF RWInv, LockInv, IInv, TypesOK
<1> QED
  BY <1>1, <1>2, <1>3, PTL DEF MCSpec

=============================================================================
