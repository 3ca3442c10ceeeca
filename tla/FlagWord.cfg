SPECIFICATION Spec
INVARIANT ActiveSetOnlyByActivate
