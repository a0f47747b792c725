\* Two overlapping requests to any endpoints, with the fine-tuned embedding
\* model and some of the optional parts.
SPECIFICATION Spec
CONSTANTS
  Requests = {r1, r2}
  Kinds = {"ask", "agent", "contract", "image", "page"}
  Configured = {"graph_store", "rag_reranker", "agent_tracer"}
  LocalModel = TRUE
  Nothing = Nothing
SYMMETRY MCSymmetry
INVARIANTS
  AttributeBehindFlag
  HandlersAreEquipped
PROPERTIES
  RefusalsEnd
  CachedStays
CHECK_DEADLOCK FALSE
