---------------------------- MODULE FileWriterMC ----------------------------
(***************************************************************************)
(* Small files for TLC: an optional, repeated column with a dictionary     *)
(* that falls back after one entry, and a required plain column.           *)
(***************************************************************************)
EXTENDS FileWriterProperties

CONSTANTS a, b

MCData == {a, b}

Nested   == [maxDef |-> 1, maxRep |-> 1, dict |-> TRUE]
Fallible == [maxDef |-> 1, maxRep |-> 0, dict |-> TRUE]
Required == [maxDef |-> 0, maxRep |-> 0, dict |-> FALSE]

MCSchema == <<Fallible, Required>>
MCNested == <<Nested>>

Top == [def |-> 0, rep |-> 0]

MCBatches == {[levels |-> <<Top, Top>>, vals |-> <<a, b>>]}
=============================================================================
