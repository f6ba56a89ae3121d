----------------------------- MODULE TreeNodes -----------------------------
(***************************************************************************)
(* The tree on the left of the inventory view (InvTreeItems, MFTreeView):  *)
(* characters, their containers, and the backpacks in those.  Nodes are    *)
(* made when their parent is expanded and live until it is collapsed,      *)
(* whatever the tables hold by then.                                       *)
(***************************************************************************)
EXTENDS ContainerNames

\* What a node stands for; box is -1 for a character.  The node of a backpack
\* has the panel of the node above it.
Node(c, box, panel) == [toon |-> c, box |-> box, panel |-> panel]

Root == Node(0, -1, "")

CharacterNode(c) == Node(c, -1, "")

VARIABLE tree   \* the nodes shown below "Characters"

\* The constraint a node puts on the slot.
OnPanel(panel, slot) ==
    CASE panel = "Inventory" -> slot > 63
      [] panel = "Weapons"   -> slot < 16
      [] panel = "Cloth"     -> slot >= 16 /\ slot < 32
      [] panel = "Implants"  -> slot >= 32 /\ slot < 47
      [] panel = "Social"    -> slot >= 47 /\ slot < 64
      [] OTHER               -> TRUE

\* The slot a container node is constrained to, if any.
Fits(n, r) == n.box = Inventory => OnPanel(n.panel, r.slot)

\* The rows a node asks the item list for.
Wants(n, r) == r.owner = n.toon /\ (n.box = -1 \/ (r.parent = n.box /\ Fits(n, r)))

Panels == {"Inventory", "Weapons", "Cloth", "Implants", "Social"}

CharacterNodes == {CharacterNode(c) : c \in toons}

ContainersOf(c) ==
    {Node(c, Bank, "Bank"), Node(c, Shop, "Shop")} \cup {Node(c, Inventory, p) : p \in Panels}

\* Only the bank and the inventory are looked through for backpacks.
BackpacksIn(n) ==
    {Node(n.toon, r.children, n.panel) :
        r \in {x \in items : n.box \in {Bank, Inventory} /\ x.children > 0 /\ Wants(n, x)}}

Children(n) ==
    IF n = Root THEN CharacterNodes
    ELSE IF n.box = -1 THEN ContainersOf(n.toon)
    ELSE BackpacksIn(n)

Parent(n) ==
    IF n.box = -1 THEN Root
    ELSE IF n.box \in {Bank, Inventory, Shop} THEN CharacterNode(n.toon)
    ELSE Node(n.toon, IF n.panel = "Bank" THEN Bank ELSE Inventory, n.panel)

\* The nodes shown below n.
Below(n) == {m \in tree \ {n} : n \in {Root, Parent(m), Parent(Parent(m))}}

TreeInit == tree = {}

\* A node with nodes below it is not expanded again.
Expand(n) ==
    /\ n \in tree \cup {Root} /\ Below(n) = {} /\ Children(n) # {}
    /\ tree' = tree \cup Children(n)

\* The nodes below go, those further down too.
Collapse(n) ==
    /\ n \in tree \cup {Root} /\ Below(n) # {}
    /\ tree' = tree \ Below(n)
=============================================================================
