--------------------------------- MODULE Mus ---------------------------------
(***************************************************************************)
(* The two analyses of SygusResult.sl (mus/Mus.cpp): minimiseAssertions    *)
(* drops what the rest implies, getMus finds which variables the           *)
(* assertions leave underspecified.  cvc5 may answer "unknown" or throw.   *)
(*                                                                         *)
(* A line of the file is a definition with its term, a definition with an  *)
(* operator TermBuilder does not support ("opaque"), or no definition.     *)
(* Variables are numbers in the order of their names; all are Boolean.     *)
(***************************************************************************)
EXTENDS Integers, Sequences, FiniteSets

CONSTANTS
    Variables,         \* the lines of variables.txt
    SygusResults,      \* what SygusResult.sl may hold: sequences of lines
    FreeVariables(_),  \* the free variables of a term
    Arity(_),          \* how many arguments it has
    TrueIn(_, _)       \* is it true, given the values of its variables?

VARIABLES
    job,          \* "minimise" or "msa"
    file,         \* the lines
    musAt,        \* where the job is
    late,         \* has its deadline been seen to pass?
    kept, todo,   \* minimise: lines kept, lines still to try
    scope,        \* minimise: what the solver's open scopes admit
    output,       \* minimise: the lines written
    groups,       \* msa: groups to analyse
    group,        \* msa: the one being analysed
    candidate,    \* msa: its variables taken so far
    core,         \* msa: the assertions of the last unsat core
    msa,          \* msa: variables the assertions pin down
    under,        \* msa: the result, "underspecified"
    threw, unsure \* history: did a check throw, or answer "unknown"?

minimiser == <<kept, todo, scope, output, threw>>
search == <<groups, group, candidate, core, msa, under, unsure>>
musVars == <<job, file, musAt, late, minimiser, search>>

IsTerm(line) == line \notin {<<"opaque">>, <<"other">>}
Lines == DOMAIN file
TermLines == {i \in Lines : IsTerm(file[i])}
Opaque == {i \in Lines : file[i] = <<"opaque">>}
Definitions == TermLines \union Opaque

\* freeVariables of an assertion, and of several.
Free(i) == FreeVariables(file[i])
FreeOf(S) == UNION {Free(i) : i \in S}
Valuations == [FreeOf(TermLines) -> 0 .. 1]
Models(S) == {e \in Valuations : \A i \in S : TrueIn(file[i], e)}

\* A term means something whatever else has a value.
NamesIn(f) == UNION {FreeVariables(f[i]) : i \in {j \in DOMAIN f : IsTerm(f[j])}}

ASSUME TermAssumption ==
    \A f \in SygusResults : \A i \in {j \in DOMAIN f : IsTerm(f[j])} :
        \A D \in SUBSET NamesIn(f) : \A e \in [NamesIn(f) -> 0 .. 1] :
            FreeVariables(f[i]) \subseteq D =>
                (TrueIn(f[i], e) <=> TrueIn(f[i], [v \in D |-> e[v]]))

MusInit ==
    /\ job \in {"minimise", "msa"} /\ file \in SygusResults
    /\ musAt = "start" /\ late = FALSE
    /\ kept = {} /\ todo = {} /\ scope = {} /\ output = {} /\ threw = FALSE
    /\ groups = {} /\ group = {} /\ candidate = {} /\ core = {}
    /\ msa = {} /\ under = {} /\ unsure = FALSE

Goto(from, to) == musAt = from /\ musAt' = to

\* The clock is read where the code reads it; once late, always late.
ReadClock == late' \in {late, TRUE}

------------------------------------------------------------------------------
(* minimiseAssertions.                                                      *)

\* At most one definition: copied.  Else those that cannot be read are kept
\* and the others tried.
StartMinimise ==
    /\ job = "minimise"
    /\ IF Cardinality(Definitions) =< 1
       THEN Goto("start", "done") /\ output' = Definitions /\ UNCHANGED <<kept, todo, scope>>
       ELSE /\ Goto("start", "try")
            /\ kept' = TermLines /\ todo' = TermLines
            /\ scope' = Valuations
            /\ UNCHANGED output
    /\ UNCHANGED <<job, file, late, threw, search>>

\* getNumChildren: the terms with the fewest arguments are tried first, equals
\* in the order of the file.
Children(i) == Arity(file[i])
Cheapest ==
    CHOOSE i \in todo : \A j \in todo \ {i} :
        \/ Children(i) < Children(j)
        \/ Children(i) = Children(j) /\ i < j

\* Slip: what has been dropped still speaks for the others.
AllOthers(i) == TermLines \ {i}
\* What is asserted when dropping i is tried.
Remaining(i) == kept \ {i}

\* The counterexamples to "the rest implies i" the solver sees; formulas left
\* in an open scope count.
Against(i) == (scope \intersect Models(Remaining(i))) \ Models({i})

\* Try to drop the next one.  A check that throws leaves its scope open.
TryDrop ==
    /\ musAt = "try" /\ todo # {} /\ ReadClock /\ ~late'
    /\ todo' = todo \ {Cheapest}
    /\ \/ /\ Remaining(Cheapest) # {} /\ Against(Cheapest) = {}
          /\ kept' = kept \ {Cheapest}
          /\ UNCHANGED <<scope, threw>>
       \/ UNCHANGED <<kept, scope, threw>>
       \/ /\ Remaining(Cheapest) # {}
          /\ scope' = Against(Cheapest) /\ threw' = TRUE
          /\ UNCHANGED kept
    /\ UNCHANGED <<job, file, musAt, output, search>>

\* Nothing is left to try, or it is too late.
WriteKept ==
    /\ Goto("try", "done")
    /\ IF todo = {} THEN UNCHANGED late ELSE ReadClock /\ late'
    /\ output' = Opaque \union kept
    /\ UNCHANGED <<job, file, kept, todo, scope, threw, search>>

------------------------------------------------------------------------------
(* getMus.                                                                  *)

\* Slip: all_of for any_of, so an assertion joins those that have all its
\* variables.
Nested(i, j) == Free(i) \subseteq Free(j) \/ Free(j) \subseteq Free(i)
Shares(i, j) == Free(i) \intersect Free(j) # {}

\* independentGroups: the smallest sets no assertion outside is linked to.
Closed(S) == {T \in (SUBSET S) \ {{}} : \A i \in T : \A j \in S \ T : ~ Shares(i, j)}
Groups(S) == {T \in Closed(S) : \A U \in Closed(S) : U \subseteq T => U = T}

\* approxMinimalHittingSet of a family of sets: the variable in most of those that
\* are uncovered, the first by name, covers those it is in; and so on until none
\* is left.
Count(sets, Q, v) == Cardinality({i \in Q : v \in sets[i]})
MostCommon(sets, Q) ==
    LET all == UNION {sets[i] : i \in Q} IN
    CHOOSE v \in all : \A w \in all \ {v} :
        \/ Count(sets, Q, w) < Count(sets, Q, v)
        \/ Count(sets, Q, w) = Count(sets, Q, v) /\ v < w
Uncovered(sets, Q) == {i \in Q : MostCommon(sets, Q) \notin sets[i]}

\* Which are uncovered before some pass of the loop.
NotEmpty(sets) == {i \in DOMAIN sets : sets[i] # {}}
Passes(sets) ==
    {Q \in SUBSET NotEmpty(sets) :
        \A all \in SUBSET SUBSET NotEmpty(sets) :
            /\ NotEmpty(sets) \in all
            /\ \A P \in all : P # {} => Uncovered(sets, P) \in all
            => Q \in all}
HittingSet(sets) == {MostCommon(sets, Q) : Q \in Passes(sets) \ {{}}}

\* No assertion can be read: nothing is pinned down.
StartMsa ==
    /\ job = "msa"
    /\ IF TermLines = {}
       THEN Goto("start", "done") /\ under' = Variables /\ UNCHANGED groups
       ELSE Goto("start", "next") /\ groups' = Groups(TermLines) /\ UNCHANGED under
    /\ UNCHANGED <<job, file, late, minimiser, group, candidate, core, msa, unsure>>

\* A single assertion over a single variable pins it; other groups start from
\* a hitting set.
NextGroup ==
    /\ groups # {}
    /\ \E g \in groups :
         /\ groups' = groups \ {g}
         /\ IF Cardinality(g) = 1 /\ Cardinality(FreeOf(g)) = 1
            THEN /\ musAt = "next" /\ UNCHANGED <<musAt, group, candidate>>
                 /\ msa' = msa \union FreeOf(g)
            ELSE /\ Goto("next", "check") /\ group' = g
                 /\ candidate' = HittingSet([i \in g |-> Free(i)])
                 /\ UNCHANGED msa
    /\ UNCHANGED <<job, file, late, minimiser, core, under, unsure>>

\* Can the assertions S hold whatever the variables Q are?
Enough(S, Q) ==
    \E fixed \in [FreeOf(S) \ Q -> 0 .. 1] :
        \A e \in [FreeOf(S) -> 0 .. 1] :
            (\A v \in DOMAIN fixed : e[v] = fixed[v]) => \A i \in S : TrueIn(file[i], e)

Quantified == FreeOf(group) \ candidate

\* isMus: enough, or an unsat core; when the answer is "unknown" every
\* assertion counts.  Nothing to quantify is enough without a check.
Check ==
    /\ \/ /\ Quantified = {} \/ Enough(group, Quantified)
          /\ Goto("check", "next")
          /\ msa' = msa \union candidate
          /\ UNCHANGED <<core, unsure>>
       \/ /\ Quantified # {} /\ ~Enough(group, Quantified)
          /\ Goto("check", "extend")
          /\ \E c \in SUBSET group :
               /\ ~Enough(c, Quantified)
               /\ \A i \in c : Enough(c \ {i}, Quantified)
               /\ core' = c
          /\ UNCHANGED <<msa, unsure>>
       \/ /\ Quantified # {}
          /\ Goto("check", "extend")
          /\ core' = group /\ unsure' = TRUE
          /\ UNCHANGED msa
    /\ UNCHANGED <<job, file, late, minimiser, groups, group, candidate, under>>

\* minimalWitnesses: what hits the parts of the core, beyond the candidate.
Witnesses == HittingSet([g \in Groups(core) |-> FreeOf(g) \ candidate])

\* Take the witnesses and check again, unless it is late or there are none.
Extend ==
    /\ ReadClock
    /\ \/ /\ ~late' /\ Witnesses # {}
          /\ Goto("extend", "check")
          /\ candidate' = candidate \union Witnesses
          /\ UNCHANGED msa
       \/ /\ late' \/ Witnesses = {}
          /\ Goto("extend", "next")
          /\ msa' = msa \union candidate
          /\ UNCHANGED candidate
    /\ UNCHANGED <<job, file, minimiser, groups, group, core, under, unsure>>

Report ==
    /\ groups = {} /\ Goto("next", "done")
    /\ under' = Variables \ msa
    /\ UNCHANGED <<job, file, late, minimiser, groups, group, candidate, core, msa, unsure>>

MusNext ==
    \/ StartMinimise \/ TryDrop \/ WriteKept
    \/ StartMsa \/ NextGroup \/ Check \/ Extend \/ Report

MusSpec == MusInit /\ [][MusNext]_musVars

------------------------------------------------------------------------------
(* Properties.                                                              *)

\* "Rewrite `outSl` with the subset of `inSl`'s define-funs that implies all of
\* them" (Mus.h:47): whichever checks were unsure and whenever time ran out,
\* no definition is lost that the written ones do not imply.  The exception is
\* a check that throws: its formulas stay asserted in every later one.
WrittenImpliesAll ==
    job = "minimise" /\ musAt = "done" /\ ~threw =>
      /\ Opaque \subseteq output
      /\ Models(output \intersect TermLines) \subseteq Models(TermLines)

\* Blocks of the next round are drawn from the variables getMus leaves: those
\* it leaves can all take any value at once without breaking an assertion.
\* Nothing is said when time ran out, cvc5 was unsure, or the assertions
\* contradict each other.
UnderspecifiedIsFree ==
    job = "msa" /\ musAt = "done" /\ ~late /\ ~unsure /\ Models(TermLines) # {} =>
      Enough(TermLines, under)
==============================================================================
