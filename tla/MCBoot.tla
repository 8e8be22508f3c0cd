------------------------------- MODULE MCBoot -------------------------------
(* Small instances for TLC of the reference boot controller and of the     *)
(* installed system's updates, each by itself: `part' says which runs.     *)
EXTENDS BootControl

\* Releases in the order of their sequence; the fourth has another data layout.
Sequences == [r \in Release |-> r]
Layouts == [r \in Release |-> IF r = 4 THEN "new" ELSE "old"]

\* Every release reads what older ones wrote; release 1 also reads what 2 writes, but 2 does
\* not read what 3 writes.
Readable(w, r) == w <= r \/ (w = 2 /\ r = 1)

CONSTANTS Absent, MaxImage, Tries, MaxFaults

VARIABLES part, env, release, roots, entries, loader, files, run, job, faults, disturbed

System == INSTANCE SystemUpdate WITH slots <- roots

systemVars == <<env, release, roots, entries, loader, files, run, job, faults, disturbed>>
mcVars == <<part, vars, systemVars>>

\* The part that does not run starts in one of its initial states.
MCInit ==
    /\ part \in {"control", "system"} /\ Init /\ System!UpdateInit
    /\ IF part = "control" THEN env = "lab" ELSE checkpoint.sha = CHOOSE sha \in Sha : TRUE

MCNext ==
    \/ part = "control" /\ Next /\ UNCHANGED <<part, systemVars>>
    \/ part = "system" /\ System!UpdateNext /\ UNCHANGED <<part, vars>>

DriveControl == part = "control" /\ Drive /\ UNCHANGED <<part, systemVars>>

MCSpec == MCInit /\ [][MCNext]_mcVars /\ WF_mcVars(DriveControl)

\* The installed system always has something to boot (SystemUpdate).
NeverStranded == part = "system" => System!NeverStranded
=============================================================================
