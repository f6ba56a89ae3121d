--------------------------- MODULE ContainerNames ---------------------------
(***************************************************************************)
(* ContainerManager: the names of backpacks, which the item list asks for  *)
(* whenever it draws a row, the tree when it makes a node, and what copies *)
(* and exports items too.  The game keeps a backpack's name in a file of   *)
(* its own and may write, or remove, the file at any time; the name is     *)
(* cached with the time the file was written.  Without a name in a file    *)
(* one is made up from tItems, once and for all.                           *)
(*                                                                         *)
(* A name is a pair: where it comes from, and what.                        *)
(***************************************************************************)
EXTENDS StoredItems, Functions

CONSTANTS
    Names       \* names a player gives

NoName == 0
NoFile == [stamp |-> 0, name |-> NoName]

ASSUME NameAssumption == NoName \notin Names

Keys == Toons \X Bags

VARIABLES
    files,      \* Container_51017x<id>.xml of a character: when written, and the name in it
    fileCache,  \* m_containerFileCache: key -> stamp and name
    dbCache     \* m_containerDBCache: key -> name

naming == <<files, fileCache, dbCache>>

NamesInit ==
    /\ files = [k \in Keys |-> NoFile]
    /\ fileCache = <<>>
    /\ dbCache = <<>>

Without(f, k) == Restrict(f, DOMAIN f \ {k})

-----------------------------------------------------------------------------
(* The game's side.                                                        *)

\* A write stamps the file with a time of its own; a file may be without a
\* name.
WriteFile(k, n) ==
    /\ Spend(2)
    /\ files' = [files EXCEPT ![k] = [stamp |-> left[2], name |-> n]]
    /\ UNCHANGED <<fileCache, dbCache>>

RemoveFile(k) ==
    /\ files[k] # NoFile
    /\ Spend(2)
    /\ files' = [files EXCEPT ![k] = NoFile]
    /\ UNCHANGED <<fileCache, dbCache>>

-----------------------------------------------------------------------------
(* GetContainerName and MakeContainerName.                                 *)

\* GetAOItemInfo: an item that tblAO has not leaves the name empty.
ItemName(kind) == IF kind \in Listed THEN <<"item", kind>> ELSE <<"empty", 0>>

\* The first row that names the container counts, whoever owns it.
MadeUp(b) ==
    LET bags == {r \in items : r.children = b}
    IN  IF bags = {} THEN <<"number", b>> ELSE ItemName((CHOOSE r \in bags : TRUE).kind)

MakeContainerName(k) == IF k \in DOMAIN dbCache THEN dbCache[k] ELSE MadeUp(k[2])

\* What is cached of a file that is gone is dropped.
Swept(k) == IF files[k].stamp = 0 THEN Without(fileCache, k) ELSE fileCache

\* Mutant: what is cached counts, whenever the file was written.
IsCachedForEver(k) == k \in DOMAIN Swept(k)

IsCached(k) == k \in DOMAIN Swept(k) /\ Swept(k)[k].stamp = files[k].stamp

\* The name from the file, NoName when there is none.
NameInFile(k) == IF IsCached(k) THEN Swept(k)[k].name ELSE files[k].name

GetContainerName(k) ==
    IF NameInFile(k) # NoName THEN <<"file", NameInFile(k)>> ELSE MakeContainerName(k)

\* The names read from their files, and those made up, when K are asked for.
ReadNow(K) == {k \in K : ~ IsCached(k) /\ files[k].name # NoName}

MadeNow(K) == {k \in K \ DOMAIN dbCache : NameInFile(k) = NoName}

KeptCached(K) == {k \in DOMAIN fileCache : k \in K => files[k].stamp # 0}

\* A view asks for the names of some backpacks.
AskNames(K) ==
    /\ fileCache' = [k \in KeptCached(K) \cup ReadNow(K) |->
                        IF k \in ReadNow(K) THEN files[k] ELSE fileCache[k]]
    /\ dbCache' = [k \in DOMAIN dbCache \cup MadeNow(K) |->
                      IF k \in MadeNow(K) THEN MadeUp(k[2]) ELSE dbCache[k]]
    /\ UNCHANGED files
=============================================================================
