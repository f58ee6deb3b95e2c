--------------------------- MODULE MCMetricsStream ---------------------------
EXTENDS MetricsStream
=============================================================================
