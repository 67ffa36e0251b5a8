------------------------- MODULE MCCredentialHandoff -------------------------
(***************************************************************************)
(* Small instances of the credential handoff for TLC: one provider between *)
(* two targets that want a key; and between one of these and one that wants*)
(* none, with a store that cannot always be read.                          *)
(***************************************************************************)
EXTENDS CredentialHandoff

CONSTANTS p1, remote, other, loopback

World(blind, targets) ==
  [blind |-> blind, providers |-> {p1}, listed |-> {}, targets |-> targets]

MCWorlds == {World(FALSE, {remote, other}), World(TRUE, {remote, loopback})}

(* States that differ in what no step reads are one state: the history of  *)
(* the registry, and a request that is over.                               *)
MCView ==
  <<conf, config, secret, marked, overlay, upc, IF upc = "idle" THEN NoRequest ELSE op,
    updated, previous, sessionVars>>
=============================================================================
