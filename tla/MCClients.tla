------------------------------ MODULE MCClients ------------------------------
(* The two clients of the backend for TLC: the headless driver              *)
(* (HeadlessRun) and the terminal interface (TuiScreens).  A process has    *)
(* one of them; a run chooses at its start which.                           *)
EXTENDS HeadlessRun, TuiScreens

CONSTANT MaxUiEvents    \* bound on the prompts, edits, selections and dialogs together

VARIABLE part   \* the client of this process

\* The flag of a headless run and the mode the project has stored: each flag once, and
\* both stored modes without a flag.
ModePairs ==
    {<<"none", "review">>, <<"none", "edits">>, <<"full", "review">>, <<"auto", "edits">>}

ClientsInit ==
    /\ HeadInit /\ TuiInit
    /\ \/ part = "headless" /\ inForce = 1 /\ <<plan.mode, plan.stored>> \in ModePairs
       \/ part = "tui" /\ turns = <<>>
                      /\ plan = [prompts |-> <<"text">>, mode |-> "none",
                                 stored |-> "review", waits |-> FALSE]

ClientsNext ==
    \/ part = "headless" /\ HeadNext /\ UNCHANGED <<tuiVars, part>>
    \/ /\ part = "tui" /\ TuiNext /\ UNCHANGED <<headVars, part>>
       /\ spent'.prompts + spent'.edits + spent'.selects + spent'.dialogs <= MaxUiEvents

ClientsSpec ==
    ClientsInit /\ [][ClientsNext]_<<headVars, tuiVars, part>> /\ HeadFairness

=============================================================================
