---------------------------- MODULE MCCollector ----------------------------
(***************************************************************************)
(* Small instances of Collector: two paths, up to two profiles, and three  *)
(* catalogue entries, a broad glob, an entry that names a file, and a      *)
(* credential entry.                                                       *)
(***************************************************************************)
EXTENDS Collector, TLC

CONSTANTS f1, f2, glob, named, credential

MCFiles == {f1, f2}
MCArtifacts == {glob, named, credential}
MCOrder == (named :> 1) @@ (credential :> 3) @@ (glob :> 2)

(* The first profile's patterns reach both paths, the second one's too,    *)
(* with other entries; f1 is a credential file that the glob also reaches. *)
MCClaims ==
    << (f1 :> {glob, credential}) @@ (f2 :> {glob, named}),
       (f1 :> {glob}) @@ (f2 :> {named}) >>

(* One profile, and no claim on f1 but the broad one. *)
MCOneProfile == << (f1 :> {glob}) @@ (f2 :> {named}) >>

Plain == [dryRun |-> FALSE, includeSecrets |-> FALSE, zip |-> FALSE,
          windows |-> FALSE, live |-> TRUE]
MCPlain == {Plain}
MCOptions == {Plain, [Plain EXCEPT !.dryRun = TRUE],
              [Plain EXCEPT !.includeSecrets = TRUE, !.zip = TRUE],
              [Plain EXCEPT !.windows = TRUE],
              [Plain EXCEPT !.windows = TRUE, !.live = FALSE]}
=============================================================================
