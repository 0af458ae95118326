--------------------------- MODULE ScopeHierarchy ---------------------------
(***************************************************************************)
(* Scopes (rsb/Scope.cpp).  A scope is the sequence of its components,     *)
(* outermost first; <<>> is the root scope "/".  Two scopes are equal iff   *)
(* their normalised strings are, and the string is a function of the        *)
(* components (module ScopeSyntax), so equality is equality of sequences.   *)
(***************************************************************************)
LOCAL INSTANCE Naturals
LOCAL INSTANCE Sequences

\* Scope::isSuperScopeOf: strictly fewer components, all of them equal.
IsSuperScopeOf(s, other) ==
    /\ Len(s) < Len(other)
    /\ \A i \in 1..Len(s) : s[i] = other[i]

\* Scope::isSubScopeOf, written as its own loop in the code.
IsSubScopeOf(s, other) ==
    /\ Len(s) > Len(other)
    /\ \A i \in 1..Len(other) : s[i] = other[i]

\* Scope::superScopes(true): root first, the scope itself last.
SuperScopes(s) == [i \in 1..(Len(s) + 1) |-> SubSeq(s, 1, i - 1)]

\* Scope::concat
Concat(s, child) == s \o child

\* The test the buses make before delivering: it->first == scope ||
\* it->first.isSuperScopeOf(scope).
Covers(s, other) == s = other \/ IsSuperScopeOf(s, other)
=============================================================================
