------------------------------ MODULE Environ ------------------------------
(***************************************************************************)
(* The environment of a program, of lib/libc/environ.c: a vector of        *)
(* "name=value" strings, which exec() laid out on the stack and setenv()   *)
(* replaces piece by piece by memory from malloc().                        *)
(***************************************************************************)
EXTENDS Integers, SequencesExt, FiniteSetsExt

CONSTANTS
    Objects,    \* bound: pieces of memory that malloc() has
    Names,      \* bound: names, as sequences of characters
    Values,     \* bound: values
    OnStack     \* bound: vectors that exec() leaves, as sequences of strings

VARIABLES
    environ,    \* the strings of the vector, each a piece of memory
    vector,     \* the piece of memory that the vector itself is in
    text,       \* what is in each string
    pieces,     \* the pieces of memory that malloc() handed out
    freed,      \* history: free() of something that malloc() had not handed out
    meant       \* history: the variables, as they were set and unset

vars == <<environ, vector, text, pieces, freed, meant>>

(* Pieces of the stack are negative; 0 is the vector that exec() left *)
String(name, value) == name \o <<"=">> \o value

Variables(strings) ==
    [name \in {n \in Names : \E i \in DOMAIN strings : \E v \in Values : strings[i] = String(n, v)} |->
       CHOOSE v \in Values : \E i \in DOMAIN strings : strings[i] = String(name, v)]

(* Names hold no "=", and exec() was given each variable once *)
Given ==
    /\ Objects \subseteq Nat \ {0}
    /\ Names \subseteq Seq(STRING) /\ Values \subseteq Seq(STRING) /\ OnStack \subseteq Seq(Seq(STRING))
    /\ \A n \in Names : \A i \in DOMAIN n : n[i] # "="
    /\ \A strings \in OnStack :
          /\ \A i \in DOMAIN strings : \E n \in Names, v \in Values : strings[i] = String(n, v)
          /\ \A i, j \in DOMAIN strings : \A n \in Names, v, w \in Values :
                strings[i] = String(n, v) /\ strings[j] = String(n, w) => i = j

Init ==
    \E strings \in OnStack :
        /\ environ = [i \in DOMAIN strings |-> -i]
        /\ vector = 0
        /\ text = [i \in {-k : k \in DOMAIN strings} |-> strings[-i]]
        /\ pieces = {} /\ freed = {}
        /\ meant = Variables(strings)

-----------------------------------------------------------------------------
(* strncmp(name, *e, name_len) == 0 && e[0][name_len] == '=' *)
IsOf(name, s) == Len(s) > Len(name) /\ SubSeq(s, 1, Len(name)) = name /\ s[Len(name) + 1] = "="
Entries(name) == {i \in DOMAIN environ : IsOf(name, text[environ[i]])}
Entry(name) == Min(Entries(name))
OldValue(name) == LET s == text[environ[Entry(name)]] IN SubSeq(s, Len(name) + 2, Len(s))

(* malloc() may find nothing: the calls that fail leave all as it was *)
Free == Objects \ pieces
New == Min(Free)
TwoFree == Free # {} /\ Free \ {New} # {}
Without(at, f) == [p \in DOMAIN f \ {at} |-> f[p]]
With(at, s, f) == [p \in DOMAIN f \cup {at} |-> IF p = at THEN s ELSE f[p]]

(* Mutant: what lies on the stack is freed as well *)
OnHeapAlways(at) == TRUE
(* Its address is below that of a local variable *)
OnHeap(at) == at > 0

(* free() of the piece "at", when it is on the heap *)
Frees(at) ==
    IF OnHeap(at) THEN freed' = (IF at \in pieces THEN freed ELSE freed \cup {at}) ELSE UNCHANGED freed
Kept(at) == IF OnHeap(at) THEN pieces \ {at} ELSE pieces

-----------------------------------------------------------------------------
(* setenv() of a variable that is there, with "overwrite": in place when    *)
(* the value is no longer than the old one                                  *)
SetInPlace(name, value) ==
    /\ Entries(name) # {} /\ Len(value) <= Len(OldValue(name))
    /\ text' = [text EXCEPT ![environ[Entry(name)]] = String(name, value)]
    /\ meant' = [meant EXCEPT ![name] = value]
    /\ UNCHANGED <<environ, vector, pieces, freed>>

SetLonger(name, value) ==
    /\ Entries(name) # {} /\ Len(value) > Len(OldValue(name))
    /\ Free # {}
    /\ LET old == environ[Entry(name)]
       IN /\ Frees(old)
          /\ pieces' = Kept(old) \cup {New}
    /\ text' = With(New, String(name, value), Without(environ[Entry(name)], text))
    /\ environ' = [environ EXCEPT ![Entry(name)] = New]
    /\ meant' = [meant EXCEPT ![name] = value]
    /\ UNCHANGED vector

(* setenv() of a new variable: a vector with one more entry *)
SetNew(name, value) ==
    /\ Entries(name) = {}
    /\ TwoFree
    /\ LET s == Min(Free \ {New})
       IN /\ Frees(vector)
          /\ pieces' = Kept(vector) \cup {New, s}
          /\ text' = With(s, String(name, value), text)
          /\ environ' = Append(environ, s)
    /\ vector' = New
    /\ meant' = With(name, value, meant)

(* ENOMEM: the vector of a variable that gets no memory is given back *)
SetFails(name, value) ==
    /\ IF Entries(name) = {} THEN ~TwoFree
       ELSE Len(value) > Len(OldValue(name)) /\ Free = {}
    /\ UNCHANGED vars

unsetenv(name) ==
    /\ Entries(name) # {}
    /\ LET old == environ[Entry(name)]
       IN Frees(old) /\ pieces' = Kept(old) /\ text' = Without(old, text)
    /\ environ' = RemoveAt(environ, Entry(name))
    /\ meant' = Without(name, meant)
    /\ UNCHANGED vector

Next ==
    \E name \in Names :
        \/ unsetenv(name)
        \/ \E value \in Values : SetInPlace(name, value) \/ SetLonger(name, value)
                                 \/ SetNew(name, value) \/ SetFails(name, value)

Spec == Init /\ [][Next]_vars

-----------------------------------------------------------------------------
(* getenv(): the rest of the first entry that is of the name *)
getenv(name) == IF Entries(name) = {} THEN <<"NULL">> ELSE OldValue(name)

(***************************************************************************)
(* getenv() answers what setenv() and unsetenv() were asked for, also when *)
(* one name begins with another; no string is freed that is still in the   *)
(* vector or that malloc() did not hand out, and none is left over.        *)
(***************************************************************************)
EnvKept ==
    /\ \A n \in Names : getenv(n) = (IF n \in DOMAIN meant THEN meant[n] ELSE <<"NULL">>)
    /\ freed = {}
    /\ pieces = {p \in ToSet(environ) \cup {vector} : p > 0}
    /\ \A i, j \in DOMAIN environ : environ[i] = environ[j] => i = j
=============================================================================
