--------------------------- MODULE DownloadStageMC ---------------------------
(***************************************************************************)
(* An instance of DownloadStage: a runtime that one EP names among its     *)
(* dependencies and that is, with a library, a file of another EP too, as  *)
(* in the Windows configurations: one URL with two destinations, in the    *)
(* second and the third storage.  The first one is that of the data        *)
(* directory.  All files lie on the volume of the dependencies.  Four bytes*)
(* are what the plan asks for, which has the runtime once: when it is      *)
(* fetched twice nothing is left for the library.                          *)
(***************************************************************************)
EXTENDS DownloadStage

CONSTANTS runtime, runtime2, library

ThreeFiles == <<runtime, runtime2, library>>

Owner == [t \in Task |-> IF t = runtime THEN 2 ELSE 3]

Url == [t \in Task |-> IF t = library THEN "library" ELSE "runtime"]

TwoMounts == {<< >>, <<"deps">>}

Destination == [t \in Task |-> IF t = runtime THEN <<"deps", "ep", "runtime">>
                               ELSE IF t = runtime2 THEN <<"deps", "ep2", "runtime">>
                               ELSE <<"deps", "ep2", "library">>]

Bytes == [t \in Task |-> IF t = library THEN 1 ELSE 2]

FullOrJustEnough == {[v \in Mounts |-> n] : n \in {0, 4}}

=============================================================================
