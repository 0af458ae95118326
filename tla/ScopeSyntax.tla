----------------------------- MODULE ScopeSyntax -----------------------------
(***************************************************************************)
(* The two ways in which rsb/Scope.cpp arrives at a scope's string: from    *)
(* the text a user gives (verifyAndSplit) and from components (concat,      *)
(* superScopes, updateStringCache).  Scopes are compared, and looked up in   *)
(* maps, by that string, whichever way it was made.                         *)
(***************************************************************************)
EXTENDS ScopeHierarchy, Naturals, Sequences, SequencesExt

CONSTANTS Letters,  \* the characters a component may consist of
          Illegal,  \* some characters it may not
          MaxLength \* bound on the length of a text

Separator == "/"
ASSUME CharactersAssumption ==
    Letters \cap Illegal = {} /\ Separator \notin Letters \cup Illegal
ASSUME MaxLengthAssumption == MaxLength \in Nat

Texts == SeqOf(Letters \cup Illegal \cup {Separator}, MaxLength)
Component == SeqOf(Letters, MaxLength) \ {<<>>}

VARIABLES text,       \* the argument of verifyAndSplit
          prev, next, \* its iterators, as positions
          components, \* the components found so far
          string,     \* Scope::scopestring, or <<>>
          status      \* "start", "scan", "scope" or "invalid" (it has thrown)

vars == <<text, prev, next, components, string, status>>

TypeOK ==
    /\ text \in Texts
    /\ prev \in 1..(MaxLength + 1) /\ next \in 1..(MaxLength + 1)
    /\ components \in Seq(Component)
    /\ string \in Seq(Letters \cup {Separator})
    /\ status \in {"start", "scan", "scope", "invalid"}

Init ==
    /\ text \in Texts
    /\ prev = 1 /\ next = 1
    /\ components = <<>> /\ string = <<>>
    /\ status = "start"

\* An empty text and one that does not start with the separator are rejected.
Start ==
    /\ status = "start"
    /\ IF text # <<>> /\ Head(text) = Separator
       THEN status' = "scan" /\ next' = prev + 1
       ELSE status' = "invalid" /\ UNCHANGED next
    /\ UNCHANGED <<text, prev, components, string>>

Current == SubSeq(text, prev + 1, next - 1)

\* Mutated: empty components are let through.
ReadSeparator_anyLength ==
    /\ status = "scan" /\ next <= Len(text) /\ text[next] = Separator
    /\ components' = Append(components, Current)
    /\ prev' = next /\ next' = next + 1
    /\ UNCHANGED <<text, string, status>>

\* A separator ends a component, which must not be empty.
ReadSeparator ==
    /\ status = "scan" /\ next <= Len(text) /\ text[next] = Separator
    /\ IF next - prev = 1
       THEN status' = "invalid" /\ UNCHANGED <<prev, next, components>>
       ELSE /\ components' = Append(components, Current)
            /\ prev' = next /\ next' = next + 1
            /\ UNCHANGED status
    /\ UNCHANGED <<text, string>>

ReadCharacter ==
    /\ status = "scan" /\ next <= Len(text) /\ text[next] # Separator
    /\ IF text[next] \in Letters THEN next' = next + 1 /\ UNCHANGED status
       ELSE status' = "invalid" /\ UNCHANGED next
    /\ UNCHANGED <<text, prev, components, string>>

\* A last component without a separator, and the normalised string
Finish ==
    /\ status = "scan" /\ next = Len(text) + 1
    /\ components' = IF prev + 1 # next THEN Append(components, Current) ELSE components
    /\ string' = IF Last(text) = Separator THEN text ELSE Append(text, Separator)
    /\ status' = "scope"
    /\ UNCHANGED <<text, prev, next>>

Next == Start \/ ReadSeparator \/ ReadCharacter \/ Finish

Spec == Init /\ [][Next]_vars

\* Scope::updateStringCache: what has been written after the n-th component
CachedString(scope) ==
    LET written[n \in 0..Len(scope)] ==
            IF n = 0 THEN <<Separator>>
            ELSE Append(written[n - 1] \o scope[n], Separator)
    IN  written[Len(scope)]

-----------------------------------------------------------------------------
(* Properties *)

\* The regular expression in the comment of verifyAndSplit (Scope.cpp:45)
Grammar(t) ==
    /\ t # <<>> /\ Head(t) = Separator /\ Last(t) = Separator
    /\ \A i \in DOMAIN t : t[i] \in Letters \cup {Separator}
    /\ \A i \in 1..(Len(t) - 1) : {t[i], t[i + 1]} # {Separator}

\* A text becomes a scope if and only if it belongs to the grammar or, not being
\* empty, lacks nothing but the last separator.
GrammarDecides ==
    /\ status = "scope" => Grammar(string) /\ string \in {text, Append(text, Separator)}
    /\ status = "invalid" =>
          text = <<>> \/ ~(Grammar(text) \/ Grammar(Append(text, Separator)))

\* The string made from the text is the one concat and superScopes would make
\* from the components, so that == and map lookups do not tell them apart.
OneString == status = "scope" => string = CachedString(components)

\* A scope and those that have one more of the components
Near(scope) == {scope} \cup {Concat(scope, <<c>>) : c \in Range(components)}

\* The scopes the buses visit for an event, superScopes(true), are those whose
\* sinks are to hear it by isSuperScopeOf, and each occurs once; isSubScopeOf is
\* the converse.
HierarchyAgrees ==
    status = "scope" =>
        LET supers == SuperScopes(components)
        IN  /\ IsInjective(supers)
            /\ \A n \in 0..Len(components) : \A other \in Near(SubSeq(components, 1, n)) :
                  /\ other \in Range(supers) <=> Covers(other, components)
                  /\ IsSubScopeOf(other, components) <=> IsSuperScopeOf(components, other)
                  /\ CachedString(other) = string => other = components

\* Texts, components and the hierarchy of scopes agree (Scope.cpp:53, :147, :208).
ScopesAgree == GrammarDecides /\ OneString /\ HierarchyAgrees
=============================================================================
