--------------------------- MODULE MCTestDiscovery --------------------------
(***************************************************************************)
(* A project for TLC: in its root a test and a configuration; in a package *)
(* a test and its manifest; below another directory one at the depth       *)
(* limit, with a test out of reach below it; a generated directory with a  *)
(* test; and a test that is a link to outside.  The paths of a directory   *)
(* and of the manifest may fail to resolve.                                *)
(***************************************************************************)
EXTENDS TestDiscovery, TLC

CONSTANTS root, package, outer, inner, deep, generated,
          t_root, t_package, t_deep, t_generated, t_link, config, manifest

Directories == {root, package, outer, inner, deep, generated}
Tests == {t_root, t_package, t_deep, t_generated, t_link}
Configs == {config}
Manifests == {manifest}

Parents ==
  package :> root @@ outer :> root @@ inner :> outer @@ deep :> inner @@ generated :> root @@
  t_root :> root @@ config :> root @@ t_package :> package @@ manifest :> package @@
  t_link :> outer @@ t_deep :> deep @@ t_generated :> generated
Depths == root :> 0 @@ package :> 1 @@ outer :> 1 @@ generated :> 1 @@ inner :> 2 @@ deep :> 3

GeneratedDirectories == {generated}
Links == {t_link}
Fragile == {outer, manifest}
=============================================================================
