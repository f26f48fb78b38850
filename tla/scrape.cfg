SPECIFICATION ScrapeFairSpec
CONSTANTS
    None = None
    Classes = {n150}
    MaxProcs = 1
    MaxRestarts = 1
    MaxFaults = 1
    Races = {}
    Scrapers = {s1}
    MaxAllocs = 1
INVARIANTS ScrapeTypeOK OneSeriesPerClass
PROPERTIES SourcesAreLive ScrapesAreAtomic ScrapeCompletes MetricsFollow
CHECK_DEADLOCK FALSE
