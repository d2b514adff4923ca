\* The composite shapes documented in resolve_ty.rs, each resolved once.
SPECIFICATION Spec
INVARIANT ResolvesAsDocumented
