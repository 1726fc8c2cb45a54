------------------------------- MODULE CodeTable -------------------------------
(***************************************************************************)
(* Perl subs in the hands of JavaScript (ext/WebPerl).                     *)
(*                                                                         *)
(* A sub that is handed to JavaScript becomes a callback: a call of        *)
(* Perl.dispatch() with the name of the sub, or with the key of its entry  *)
(* in %CodeTable, which is its address.  Arguments, result and error of a  *)
(* call travel in three properties of the JavaScript object Perl.          *)
(*                                                                         *)
(* Everything runs in one thread, but calls nest: a sub calls js(), and    *)
(* the JavaScript code calls another callback.                             *)
(***************************************************************************)
EXTENDS Naturals, Sequences, SequencesExt

CONSTANTS
  Subs,       \* each made at most once
  Addrs,      \* addresses; one is used again after its sub is freed
  Name,       \* the name of a named sub
  NoCode,
  MaxCalls,   \* bound: calls of callbacks
  MaxDepth    \* bound: calls inside calls

ASSUME BoundsAssumption == MaxCalls \in Nat /\ MaxDepth \in Nat
ASSUME NamesAssumption == {Name, NoCode} \cap (Subs \cup Addrs) = {} /\ Name # NoCode

VARIABLES
  made,          \* subs that have been made
  addr,          \* address of each sub that exists
  held,          \* subs the Perl program has a reference to
  once,          \* subs that sub_once() has wrapped
  named,         \* subs whose subname() is Name
  symtab,        \* the sub that Name is defined as
  code_table,    \* %CodeTable
  callbacks,     \* what JavaScript has got: the key, and the sub it was for
  unregistered,  \* history: subs taken out of %CodeTable, and not put back
  frames,        \* calls of callbacks, innermost last
  call_rv, call_error,  \* Perl._call_code_*: the call they belong to, or 0
  calls

program == <<made, held, once, named, symtab>>
table == <<addr, code_table, callbacks, unregistered>>
slots == <<call_rv, call_error>>
code_vars == <<program, table, frames, slots, calls>>

-----------------------------------------------------------------------------

Keys == Addrs \cup {Name}
Frames == [call : 1 .. MaxCalls, key : Keys, sub : Subs \cup {NoCode},
           at : {"enter", "run", "leave", "destroy", "back"}, mixed : BOOLEAN]

CodeTypeOK ==
  /\ made \subseteq Subs
  /\ held \cup once \cup named \cup unregistered \subseteq made
  /\ addr \in [Subs -> Addrs \cup {NoCode}]
  /\ \A s, u \in Subs : s # u /\ addr[s] = addr[u] => addr[s] = NoCode
  /\ symtab \in Subs \cup {NoCode}
  /\ \A s \in held \cup ({symtab} \ {NoCode}) : addr[s] # NoCode
  /\ code_table \in [Addrs -> Subs \cup {NoCode}]
  /\ callbacks \subseteq [key : Keys, sub : Subs]
  /\ frames \in Seq(Frames) /\ Len(frames) <= MaxDepth
  /\ calls \in 0 .. MaxCalls
  /\ {call_rv, call_error} \subseteq 0 .. calls

CodeInit ==
  /\ made = {} /\ held = {} /\ once = {} /\ named = {} /\ unregistered = {}
  /\ addr = [s \in Subs |-> NoCode]
  /\ symtab = NoCode
  /\ code_table = [a \in Addrs |-> NoCode]
  /\ callbacks = {}
  /\ frames = <<>>
  /\ call_rv = 0 /\ call_error = 0
  /\ calls = 0

CodeTop == Last(frames)
TopIs(at) == frames # <<>> /\ CodeTop.at = at
SetTop(f) == frames' = [frames EXCEPT ![Len(frames)] = f]

\* Code of the user runs: the main program, a sub, a destructor, or
\* JavaScript code that one of them has called or that called nothing yet.
UserCode == frames # <<>> => CodeTop.at \in {"run", "destroy"}

\* The running code can get at a sub: it has a reference, the sub is defined
\* under its name, or it is __SUB__.
Has(s) == s \in held \/ s = symtab \/ (TopIs("run") /\ CodeTop.sub = s)

-----------------------------------------------------------------------------
(* References.                                                             *)

InCode(s) ==
  s \in held' \/ s = symtab' \/ \E k \in DOMAIN frames' : frames'[k].sub = s
InTable(s) == addr[s] # NoCode /\ code_table'[addr[s]] = s

\* Mutant: %CodeTable has the address and no reference.
FreeUnlessInCode ==
  addr' = [s \in Subs |-> IF InCode(s) THEN addr[s] ELSE NoCode]

\* A sub is freed with the last reference to it.
CodeFree == addr' = [s \in Subs |-> IF InCode(s) \/ InTable(s) THEN addr[s] ELSE NoCode]

-----------------------------------------------------------------------------
(* The Perl program.                                                       *)

\* sub { ... }, or one with a name, or sub_once().
NewSub(s) ==
  /\ UserCode
  /\ s \notin made
  /\ \E a \in Addrs : /\ \A u \in Subs : addr[u] # a
                      /\ addr' = [addr EXCEPT ![s] = a]
  /\ \/ UNCHANGED <<once, named>>
     \/ once' = once \cup {s} /\ UNCHANGED named
     \/ named' = named \cup {s} /\ UNCHANGED once
  /\ held' = held \cup {s}
  /\ made' = made \cup {s}
  /\ UNCHANGED <<symtab, code_table, callbacks, unregistered, frames, slots, calls>>

\* The symbol table gets a sub under its name, and lets go of another.
DefineCode(s) ==
  /\ UserCode
  /\ s \in held \cap named
  /\ symtab' = s
  /\ UNCHANGED <<held, frames, code_table>>
  /\ CodeFree
  /\ UNCHANGED <<made, once, named, callbacks, unregistered, slots, calls>>

Forget(s) ==
  /\ UserCode
  /\ s \in held
  /\ held' = held \ {s}
  /\ UNCHANGED <<symtab, frames, code_table>>
  /\ CodeFree
  /\ UNCHANGED <<made, once, named, callbacks, unregistered, slots, calls>>

-----------------------------------------------------------------------------
(* Registration.                                                           *)

\* A sub that is what the symbol table has under its name goes by the name;
\* any other, named or not, by its address.
Key(s) == IF s \in named /\ s = symtab THEN Name ELSE addr[s]

\* Mutant: a sub that goes by its name has an entry, too.
RegisteredByAnyKey(S, ct) ==
  [k \in Addrs \cup {Key(s) : s \in S} |->
     IF \E s \in S : Key(s) = k THEN CHOOSE s \in S : Key(s) = k ELSE ct[k]]

\* _code_reg() for the subs of S: the entries, and what JavaScript gets.
CodeRegistered(S, ct) ==
  [a \in Addrs |-> IF \E s \in S : Key(s) = a THEN CHOOSE s \in S : Key(s) = a
                                             ELSE ct[a]]

Register(S, ct, gone) ==
  /\ code_table' = CodeRegistered(S, ct)
  /\ callbacks' = callbacks \cup {[key |-> Key(s), sub |-> s] : s \in S}
  /\ unregistered' = (unregistered \cup gone) \ {s \in S : Key(s) # Name}

\* A sub in the arguments of js(), of a method or of a function.
PassSub(s) ==
  /\ UserCode
  /\ Has(s)
  /\ Register({s}, code_table, {})
  /\ UNCHANGED <<program, addr, frames, slots, calls>>

Without(s) == [code_table EXCEPT ![addr[s]] = NoCode]

\* unregister() warns if there is no entry.
Unregister(s) ==
  /\ UserCode
  /\ Has(s)
  /\ code_table' = Without(s)
  /\ unregistered' = unregistered \cup {s}
  /\ UNCHANGED <<held, symtab, frames>>
  /\ CodeFree
  /\ UNCHANGED <<made, once, named, callbacks, slots, calls>>

-----------------------------------------------------------------------------
(* Calls.                                                                  *)

\* Perl.dispatch().  A call from a destructor may mix its result with that
\* of the call that is being left.
Dispatch(c) ==
  /\ UserCode
  /\ c \in callbacks
  /\ calls < MaxCalls /\ Len(frames) < MaxDepth
  /\ calls' = calls + 1
  /\ frames' = Append(
       IF TopIs("destroy") THEN [frames EXCEPT ![Len(frames)].mixed = TRUE] ELSE frames,
       [call |-> calls', key |-> c.key, sub |-> NoCode, at |-> "enter", mixed |-> FALSE])
  /\ UNCHANGED <<program, table, slots>>

Target(key) == IF key = Name THEN symtab ELSE code_table[key]

\* Mutant: a missing entry is passed over.
CallCodeOrNothing ==
  /\ TopIs("enter")
  /\ SetTop([CodeTop EXCEPT !.sub = Target(CodeTop.key),
                       !.at = IF Target(CodeTop.key) # NoCode THEN "run" ELSE "back"])
  /\ UNCHANGED <<program, table, slots, calls>>

\* _call_code() takes the arguments and looks the sub up: a name is what the
\* symbol table has by now, and a missing entry is an error.
CallCode ==
  /\ TopIs("enter")
  /\ IF Target(CodeTop.key) # NoCode
       THEN /\ SetTop([CodeTop EXCEPT !.sub = Target(CodeTop.key), !.at = "run"])
            /\ UNCHANGED call_error
       ELSE /\ SetTop([CodeTop EXCEPT !.at = "back"])
            /\ call_error' = CodeTop.call
  /\ UNCHANGED <<program, table, call_rv, calls>>

\* The sub returns, a wrapper of sub_once() after it has unregistered itself.
\* The result is put down; it may be a sub.
SubReturns(R) ==
  /\ TopIs("run")
  /\ \A r \in R : Has(r)
  /\ IF CodeTop.sub \in once
       THEN Register(R, Without(CodeTop.sub), {CodeTop.sub})
       ELSE Register(R, code_table, {})
  /\ call_rv' = CodeTop.call
  /\ SetTop([CodeTop EXCEPT !.at = "leave"])
  /\ UNCHANGED <<program, addr, call_error, calls>>

\* The sub dies; sub_once() does not get to unregister().
SubDies ==
  /\ TopIs("run")
  /\ call_error' = CodeTop.call
  /\ SetTop([CodeTop EXCEPT !.at = "leave"])
  /\ UNCHANGED <<program, table, call_rv, calls>>

\* _call_code() returns and lets go of $code.  With the last reference to it
\* goes what the sub has closed over, and destructors run.
Leave ==
  /\ TopIs("leave")
  /\ UNCHANGED <<held, symtab, code_table>>
  /\ \E at \in {"back", "destroy"} :
       /\ SetTop([CodeTop EXCEPT !.sub = NoCode, !.at = at])
       /\ CodeFree
       /\ at = "destroy" => addr'[CodeTop.sub] = NoCode
  /\ UNCHANGED <<made, once, named, callbacks, unregistered, slots, calls>>

Destroyed ==
  /\ TopIs("destroy")
  /\ SetTop([CodeTop EXCEPT !.at = "back"])
  /\ UNCHANGED <<program, table, slots, calls>>

\* Perl.dispatch() throws the error if there is one, or returns the result.
Back ==
  /\ TopIs("back")
  /\ frames' = Front(frames)
  /\ IF call_error # 0 THEN call_error' = 0 /\ UNCHANGED call_rv
                       ELSE call_rv' = 0 /\ UNCHANGED call_error
  /\ UNCHANGED <<program, table, calls>>

-----------------------------------------------------------------------------

CodeNext ==
  \/ \E s \in Subs :
       NewSub(s) \/ DefineCode(s) \/ Forget(s) \/ PassSub(s) \/ Unregister(s)
  \/ \E c \in callbacks : Dispatch(c)
  \/ CallCode \/ SubDies \/ Leave \/ Destroyed \/ Back
  \/ \E R \in {{}} \cup {{s} : s \in Subs} : SubReturns(R)

CodeSpec == CodeInit /\ [][CodeNext]_code_vars

-----------------------------------------------------------------------------
(* Properties.                                                             *)

\* "table to keep refs to anonymous subs which are passed to JS alive"
\* (WebPerl.pm): a callback that was made for a sub by its address calls this
\* sub until it is unregistered, although JavaScript's is the only interest
\* in it; and for as long as the sub exists it calls this sub or reports that
\* there is no entry.  It calls another sub only when its own has been freed
\* and the address used again.
CallbackFindsItsSub ==
  \A c \in callbacks : c.key # Name =>
    /\ c.sub \notin unregistered => addr[c.sub] = c.key /\ code_table[c.key] = c.sub
    /\ addr[c.sub] # NoCode => code_table[c.key] \in {c.sub, NoCode}

\* However calls nest, a call gives JavaScript its own result or its own
\* error, although all calls use the same two properties for them ("Handing
\* over arguments via a global JS value is not pretty, but it works for
\* now").  Only a destructor that calls back while _call_code() is being
\* left, with its result already put down, can mix them up.
OnlyADestructorMixesResults ==
  TopIs("back") /\ (\A k \in DOMAIN frames : ~frames[k].mixed) =>
    IF call_error # 0 THEN call_error = CodeTop.call ELSE call_rv = CodeTop.call

=============================================================================
