-------------------------- MODULE ToolchainCacheMC --------------------------
(* Builds of one user that need the same tree, and two compilers. *)
EXTENDS ToolchainCache

CONSTANTS b1, b2, b3, gcc, zig

=============================================================================
