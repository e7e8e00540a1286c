SPECIFICATION Spec
CONSTANTS
    MaxFolder = 1
    MaxFile = 1
    MaxPath = 1
    MaxStops = 0
PROPERTY FolderGoesWithFiles
