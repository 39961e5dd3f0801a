--------------------------- MODULE MCHttpPipeline ---------------------------
(* HttpPipeline with the codes Prisma gives in this application: P2023 is   *)
(* an id that is not an ObjectId, P2034 a write conflict.                  *)
EXTENDS HttpPipeline

MCPrismaCodes == Mapped \cup {"P2023", "P2034"}
=============================================================================
