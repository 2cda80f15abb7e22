---------------------------- MODULE MCK8sClient ----------------------------
(* K8sClient for TLC; the bounds are in the configurations. *)
EXTENDS K8sClient
=============================================================================
