------------------------- MODULE MCProviderRegistry -------------------------
(***************************************************************************)
(* Small instances of the provider registry for TLC.                       *)
(***************************************************************************)
EXTENDS ProviderRegistry

CONSTANTS p1, p2, remote, other, loopback

World(blind, providers, listed, targets) ==
  [blind |-> blind, providers |-> providers, listed |-> listed, targets |-> targets]

(* One provider, with every kind of target and a store whose reads fail or *)
(* not; and two providers, one of them with a catalog.                     *)
MCWorlds == {World(blind, {p1}, {p1}, {remote, other, loopback}) : blind \in BOOLEAN}
              \union {World(FALSE, {p1, p2}, {p2}, {remote})}

(* One provider between two targets that want a key, without refreshes and *)
(* with them; and with a third target that wants none.                     *)
MCPlainWorlds  == {World(FALSE, {p1}, {}, {remote, other})}
MCNoAuthWorlds == {World(FALSE, {p1}, {}, {remote, other, loopback})}
MCListedWorlds == {World(FALSE, {p1}, {p1}, {remote, other})}
=============================================================================
