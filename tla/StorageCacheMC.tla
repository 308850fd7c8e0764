--------------------------- MODULE StorageCacheMC ---------------------------
(***************************************************************************)
(* An instance of StorageCache: a remote and a local file that two         *)
(* scenarios put at the same destination, and the remote one again as a    *)
(* versioned dependency elsewhere.                                         *)
(***************************************************************************)
EXTENDS StorageCache

CONSTANTS web, usb, p1, p2

Model   == [url |-> web, path |-> p1, versioned |-> FALSE]
Copy    == [url |-> usb, path |-> p1, versioned |-> FALSE]
Library == [url |-> web, path |-> p2, versioned |-> TRUE]

SharedPath == {<<Model>>, <<Copy>>, <<Library, Library>>}

=============================================================================
