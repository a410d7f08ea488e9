-------------------------- MODULE MCAudioPipeline --------------------------
EXTENDS AudioPipeline
=============================================================================
