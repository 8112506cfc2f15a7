-------------------------- MODULE MCPeopleScreens --------------------------
(* Two other Users and two requests under way.                                *)
EXTENDS PeopleScreens, TLC

Symmetry == Permutations(User) \cup Permutations(Call)
=============================================================================
