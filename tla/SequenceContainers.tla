------------------------- MODULE SequenceContainers -------------------------
(***************************************************************************)
(* A client program run against one of the containers that keep a          *)
(* sequence: a CCVector or an adapter over it, a CCList or an adapter over *)
(* it, or a CCString.  The other two stay as created.                      *)
(***************************************************************************)
EXTENDS VectorAdapters, CCString

CONSTANTS Nodes, Elements, NULL

VARIABLES container,   \* "vector", "list" or "string"
          head, tail, size, next, prev, elem, allocated, list_status, list_kind

listVars == <<head, tail, size, next, prev, elem, allocated, list_status, list_kind>>

L == INSTANCE ListAdapters WITH status <- list_status, kind <- list_kind

ASSUME ListAssumption == L!HeapAddresses

-----------------------------------------------------------------------------
ContainerInit ==
    /\ container \in {"vector", "list", "string"}
    /\ AdapterInit /\ (container # "vector" => kind = "vector" /\ ~pack)
    /\ L!AdapterInit /\ (container # "list" => list_kind = "list")
    /\ \E c \in CStrings \cup {<<>>} : StrInit(c) /\ (container # "string" => c = <<>>)

ContainerNext ==
    /\ UNCHANGED container
    /\ \/ container = "vector" /\ AdapterNext /\ UNCHANGED <<listVars, strVars>>
       \/ container = "list" /\ L!AdapterNext /\ UNCHANGED <<adapterVars, strVars>>
       \/ container = "string" /\ StrNext /\ UNCHANGED <<adapterVars, listVars>>

ContainerSpec ==
    ContainerInit /\ [][ContainerNext]_<<container, adapterVars, listVars, strVars>>

-----------------------------------------------------------------------------
(* The properties of the list; those of the vector and of the string come   *)
(* with their modules.                                                      *)

\* The nodes form one ring, a single node without links, nothing, or what an
\* erasure of the only node leaves dangling.
ListShape == L!ListShape

\* Through an adapter the list never crashes and its size is exact.
AdaptersKeepTheList == L!AdaptersKeepTheList

\* Every crash of a list is traced to what made it possible.
CrashExplained == L!CrashExplained

\* No operation on a list of at most one node crashes, as README.md:29 promises.
EdgesAreSafe == L!EdgesAreSafe

\* The size moves with the number of nodes, inner insertions and erasures apart.
SizeMoves == L!SizeMoves

\* Every operation of the list is the edit it is named for.
ListImplementsSequence == L!ListImplementsSequence
=============================================================================
