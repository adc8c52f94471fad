SPECIFICATION Spec
INVARIANT DevSubcommandRunsChainRuntime
