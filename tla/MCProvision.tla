---------------------------- MODULE MCProvision ----------------------------
(***************************************************************************)
(* An instance of Provision: the Central hosts the root, the Super the     *)
(* space, which is of a kind that the Central wrangles; the Super takes a  *)
(* base itself and wrangles a mechtron to two stars, of which a slow round *)
(* finds one once more: as far as both, nearer than both, or as near as    *)
(* the nearer one, which until then has all turns.                         *)
(***************************************************************************)
EXTENDS Provision

CONSTANTS central, super, a, b, root, space, base, mechtron, t, u

MCStars == {central, super, a, b}
MCTasks == {t, u}
MCPoints == {root, space, base, mechtron}
MCKinds == {"Root", "Space", "Base", "Mechtron"}
MCParent == [p \in MCPoints \ {root} |-> IF p = space THEN root ELSE space]
MCDepth == [p \in MCPoints |-> IF p = root THEN 0 ELSE IF p = space THEN 1 ELSE 2]
MCKindOf == [p \in MCPoints |->
    CASE p = root -> "Root" [] p = space -> "Space" [] p = base -> "Base" [] OTHER -> "Mechtron"]
MCDrives == [s \in MCStars |->
    CASE s = central -> {"Root"} [] s = super -> {"Space", "Base"} [] OTHER -> {"Mechtron"}]
MCHomes == [p \in MCPoints |-> IF p = root THEN central ELSE None]
At(s, hops) == [star |-> s, hops |-> hops]
List(toA, toB) == [s \in MCStars |-> [k \in MCKinds |->
    CASE s = central /\ k = "Space" -> <<At(super, 0)>>
      [] s = super /\ k = "Mechtron" -> <<At(a, toA), At(b, toB)>>
      [] OTHER -> <<>>]]
MCLists == {List(0, 0), List(1, 1), List(0, 1)}
Situation(p, q, creators, unknown) ==
    [goal |-> [x \in MCTasks |-> IF x = t THEN p ELSE q], makers |-> creators,
     known |-> MCPoints \ unknown]
MCSituations ==
    {Situation(mechtron, mechtron, {}, {}), Situation(mechtron, space, {u}, {}),
     Situation(base, mechtron, {u}, {mechtron}), Situation(mechtron, mechtron, {u}, {mechtron})}
MCFinds == [s \in MCStars |-> IF s = super THEN << <<"Mechtron", At(b, 0)>> >> ELSE <<>>]
=============================================================================
