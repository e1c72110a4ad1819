------------------------------ MODULE MCParts -------------------------------
(***************************************************************************)
(* The parts that run alone: the command line (Options), the search for    *)
(* stimulus (Fuzz), several runs in one directory (Rerun), an answer of    *)
(* cvc5 on its way to EBMC (Candidate), the analyses of what was mined     *)
(* (Mus), the waveforms on their way into a problem (Traces).  They share  *)
(* no state, so a behaviour is one of them, and what belongs to the others *)
(* stays as it is at first.                                                *)
(***************************************************************************)
EXTENDS Options, Fuzz, Rerun, Mus, Traces, Candidate

J(kind, of) == [kind |-> kind, of |-> of]
E(path, json) == [path |-> path, json |-> json]

MCFiles ==
    [flat   |-> [schema |-> "flat",
                 entries |-> << E("unbounded", J("bool", TRUE)), E("bv_predicates", J("int", 1)),
                                E("assume", J("text", "a")), E("bound", J("text", "x")),
                                E("msa", J("text", "true")) >>],
     legacy |-> [schema |-> "legacy",
                 entries |-> << E("Checker_settings.Check_unbounded", J("int", 0)),
                                E("Blockified_settings.MSA", J("bool", TRUE)),
                                E("Workflow.Blockified", J("bool", FALSE)),
                                E("SMART_settings.bounded_depth", J("text", "7")),
                                E("Evaluation_settings.Any", J("int", 1)) >>],
     broken |-> [schema |-> "broken", entries |-> <<>>]]

Flag(key, text) == [kind |-> "flag", key |-> key, text |-> text]
MCArgs ==
    {[kind |-> "config", file |-> f] : f \in {"flat", "legacy", "broken", "absent"}}
    \union {Flag("unbounded", "true"), Flag("check_unbounded", "false"),
            Flag("msa", "true"), Flag("msa", "false"),
            Flag("blockified", "false"), Flag("blockified", "x"),
            Flag("bv_predicates", "unsigned"), Flag("bv_predicates", "x"),
            Flag("bound", "7"), Flag("bound", "x"),
            Flag("assume", "a"), Flag("assume", "b")}
    \union {[kind |-> "level", by |-> n] : n \in {-1, 1}} \union {[kind |-> "bad"]}
MCLines == UNION {[1 .. n -> MCArgs] : n \in 0 .. 3}

\* A design that registers its two per-cycle inputs; the simulation is stuck in
\* a loop when the constant is set and the last of the first input is not.
S(kind, width) == [kind |-> kind, width |-> width]
MCSignals == << S("output", 1), S("seq", 1), S("clock", 1), S("input", 0), S("deep const", 1) >>
MCDrawn == {<<0,0,0,0,1>>, <<0,1,0,1,1>>, <<1,0,0,1,0>>, <<1,1,1,0,0>>}
MCStimuli == [1 .. 5 -> 0 .. 1]
MCVisits == [s \in MCStimuli |-> {2 * s[2] + s[3], 2 * s[4] + s[5]}]
MCHanging == {s \in MCStimuli : s[1] = 1 /\ s[4] = 0}

Sig(stem, digits, kind, width) ==
    [name |-> [stem |-> stem, digits |-> digits], kind |-> kind, width |-> width, signed |-> TRUE]
MCBlockSignals ==
    {Sig("a", <<>>, "boolean", 1), Sig("d", <<2>>, "boolean", 1),
     Sig("v", <<>>, "bits", 2), Sig("w", <<>>, "bits", 2), Sig("u", <<>>, "bits", 1)}

N(n) == <<"name", n>>
MCDefinitions ==
    {N(1), N(3), <<"not", N(2)>>, <<"or", N(1), N(2)>>, <<"or", <<"not", N(1)>>, N(2)>>,
     <<"=>", N(2), N(3)>>, <<"=", N(1), N(3)>>, <<"opaque">>, <<"other">>}
Term == INSTANCE Terms WITH Names <- Variables
MCTerms == MCDefinitions \ {<<"opaque">>, <<"other">>}
MCNamesTable == [t \in MCTerms |-> Term!NamesOf(t)]
MCTrueTable == [t \in MCTerms |-> {e \in [Variables -> 0 .. 1] : Term!Holds(t, e)}]
MCNames(t) == MCNamesTable[t]
MCArity(t) == IF Term!IsLeaf(t) THEN 0 ELSE Len(t) - 1
MCHolds(t, e) ==
    [v \in Variables |-> IF v \in DOMAIN e THEN e[v] ELSE 0] \in MCTrueTable[t]
MCResults == UNION {[1 .. n -> MCDefinitions] : n \in 0 .. 3}

\* A design and an instance U in it, simulated with and without an instance that
\* has the design's name; EBMC leaves signals and values out.
At(t, bits) == [time |-> t, bits |-> bits]
Wire(path, ref, width, changes) ==
    [scope |-> path, ref |-> ref, width |-> width, changes |-> changes]
Wave(kind, times, wires) == [kind |-> kind, times |-> times, wires |-> wires]
MCSimulated ==
    << Wire(<<"TOP">>, "a", 1, << At(0, <<"1">>) >>),
       Wire(<<"TOP", "top">>, "a", 1, << At(0, <<"0">>), At(5, <<"1">>) >>),
       Wire(<<"TOP", "top">>, "v", 2, << At(0, <<"1">>), At(5, <<"x">>), At(10, <<"1", "0">>) >>),
       Wire(<<"TOP", "top", "U">>, "a", 1, << At(0, <<"1">>), At(10, <<"z">>) >>) >>
MCWaves ==
    [sim  |-> Wave("sim", <<0, 5, 10>>, MCSimulated),
     sim2 |-> Wave("sim", <<0, 5>>, MCSimulated),
     twin |-> Wave("sim", <<0, 5>>,
                Append(MCSimulated, Wire(<<"TOP", "top", "top">>, "a", 1, << At(0, <<"1">>) >>))),
     old  |-> Wave("smt", <<0, 1>>,
                << Wire(<<"top", "U">>, "a", 1, << At(1, <<"1">>) >>),
                   Wire(<<"top">>, "a", 1, << At(0, <<"1">>), At(1, <<"0">>) >>) >>),
     cex  |-> Wave("smt", <<0, 1>>,
                << Wire(<<"top">>, "v", 2, << At(1, <<"1">>) >>),
                   Wire(<<"top">>, "a", 1, << At(0, <<"0">>) >>) >>)]
MCSetup(module, hierarchical, cycles, simulations, leftovers, names) ==
    [module |-> module, hierarchical |-> hierarchical, latency |-> cycles, names |-> names,
     unreadable |-> names = {}, simulations |-> simulations, leftovers |-> leftovers,
     counterexample |-> "cex"]
MCBlocks ==
    {MCSetup("top", TRUE, cycles, {"sim", other}, {"old"}, {<<"a">>, <<"v">>, <<"U", "a">>}) :
        cycles \in 0 .. 1, other \in {"sim2", "twin"}}
    \union {MCSetup(module, FALSE, 1, {"sim"}, leftovers, {}) :
              module \in {"top", "U"}, leftovers \in {{}, {"old"}}}

CONSTANT Parts

VARIABLE part

Begin ==
    /\ part \in Parts
    /\ OptionsInit /\ (part # "options" => args = <<>>)
    /\ FuzzInit
    /\ RerunInit
    /\ CandidateInit /\ (part # "candidate" => latency = 0 /\ predicates = "off")
    /\ MusInit /\ (part # "mus" => job = "msa" /\ file = <<>>)
    /\ TracesInit /\ (part # "traces" => setup = CHOOSE one \in MCBlocks : TRUE)

Step ==
    \/ /\ part = "options" /\ OptionsNext
       /\ UNCHANGED <<part, fuzzVars, rerunVars, candidateVars, musVars, tracesVars>>
    \/ /\ part = "fuzz" /\ FuzzNext
       /\ UNCHANGED <<part, optionsVars, rerunVars, candidateVars, musVars, tracesVars>>
    \/ /\ part = "rerun" /\ RerunNext
       /\ UNCHANGED <<part, optionsVars, fuzzVars, candidateVars, musVars, tracesVars>>
    \/ /\ part = "candidate" /\ CandidateNext
       /\ UNCHANGED <<part, optionsVars, fuzzVars, rerunVars, musVars, tracesVars>>
    \/ /\ part = "mus" /\ MusNext
       /\ UNCHANGED <<part, optionsVars, fuzzVars, rerunVars, candidateVars, tracesVars>>
    \/ /\ part = "traces" /\ TracesNext
       /\ UNCHANGED <<part, optionsVars, fuzzVars, rerunVars, candidateVars, musVars>>

Spec == Begin /\ [][Step]_<<part, optionsVars, fuzzVars, rerunVars, candidateVars, musVars,
                           tracesVars>>
=============================================================================
