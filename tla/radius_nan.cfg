SPECIFICATION Spec
CONSTANTS
    NaN = NaN
    None = None
    Places <- MCPlaces
    Distance <- MCDistance
    Zones <- MCZones
    ZoneDistance <- MCZoneDistance
    ZoneType <- MCZoneType
    Around = {"x", "z"}
    Governorates = {"cairo", "giza"}
    Radii <- MCRadii
    Default = 1000
    MaxRadius = 1000000
    AtSite = 50
    GuideLimit = 2
    MaxWrites = 0
INVARIANTS RadiusIsCapped
