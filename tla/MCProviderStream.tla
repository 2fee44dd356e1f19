--------------------------- MODULE MCProviderStream ---------------------------
(***************************************************************************)
(* Instances of ProviderStream for TLC: every dialect.                        *)
(***************************************************************************)
EXTENDS ProviderStream

AllDialects == {"anthropic", "openai", "gemini"}
===============================================================================
